---- MODULE Spec2Model ----
(***************************************************************************)
(* A model of the genetic-algorithm scheduler GAS (src/GASv5.00.py): the   *)
(* bit-string genome codec, the breeding engine (truncation, infusion,     *)
(* crossover, mutation, history ledger) and the tournament controller.     *)
(*                                                                         *)
(* Conventions.                                                            *)
(*  - A Python list is a sequence; Python index i is sequence index i+1.   *)
(*  - A genome string is a sequence of the one-character strings "0", "1". *)
(*  - None is the empty sequence <<>>, a present value v is <<v>>.         *)
(*  - A float parameter is an exact fraction; an int-or-float parameter is *)
(*    a record [kind, num, den].                                           *)
(*  - An individual is a dict, a mutable object: the heap maps an object   *)
(*    id to the dict's contents and the lists hold object ids.             *)
(*  - randint draws are \E over the values that decide the branch taken.   *)
(***************************************************************************)
EXTENDS Integers, Sequences, FiniteSets, TLC

VARIABLES
    cfg,                  \* the fields __init__ sets and nothing changes later
    populationSize,       \* self.populationSize (tournament() reassigns it)
    population,           \* self.population: list of individuals (object ids)
    heap,                 \* the individuals: object id -> dict contents
    history,              \* self.history: list of (start_times, resources)
    averageScoreSample,   \* self.averageScoreSample
    averageScore,         \* self.averageScore: None or a fraction
    tournamentPopulation, \* self.tournamentPopulation (object ids)
    new_population,       \* breedPopulation's local new_population (object ids)
    phase,                \* where the caller (script or tournament()) stands
    bpc,                  \* position inside the running breedPopulation call
    g,                    \* tournament(): generations done in this sampling run
    err,                  \* the exception that ended the program, or ""
    enc,                  \* numberToString / count("1"): one call's locals
    crs                   \* crossTwoGenomes: one call's locals

vars == <<cfg, populationSize, population, heap, history, averageScoreSample,
          averageScore, tournamentPopulation, new_population, phase, bpc, g,
          err, enc, crs>>

engineVars == <<populationSize, population, heap, history, averageScoreSample,
                averageScore, tournamentPopulation, new_population, phase, bpc, g,
                err>>

-----------------------------------------------------------------------------
(* Bounds of the model.                                                    *)

\* numberToString is explored for every length 1..MaxLen.
MaxLen == 5
\* crossTwoGenomes is explored for parent genomes of every length 1..MaxGenome.
MaxGenome == 3
\* The genome of an individual is explored for 1..MaxResources resources.
MaxResources == 3
\* addRandomToPopulation( _n ) is called while the population stays within
\* MaxPopLen members.
MaxPopLen == 2

-----------------------------------------------------------------------------
(* Python built-ins.                                                       *)

None == <<>>
Some(v) == <<v>>

IntP(k) == [kind |-> "int", num |-> k, den |-> 1]
FloatP(n, d) == [kind |-> "float", num |-> n, den |-> d]

Max(a, b) == IF a >= b THEN a ELSE b
Abs(a) == IF a < 0 THEN -a ELSE a

\* round(num / den) for num >= 0, den > 0: Python 3 rounds halves to even.
PyRound(num, den) ==
    LET q == num \div den
        r == num % den
    IN  IF 2 * r < den THEN q
        ELSE IF 2 * r > den THEN q + 1
        ELSE IF q % 2 = 0 THEN q ELSE q + 1

\* int(a / b) for b > 0: float division, then truncation towards zero.
TruncDiv(a, b) == IF a >= 0 THEN a \div b ELSE -((-a) \div b)

RECURSIVE SumSeq(_)
SumSeq(s) == IF s = <<>> THEN 0 ELSE Head(s) + SumSeq(Tail(s))

RECURSIVE MaxSeq(_)
MaxSeq(s) == IF Len(s) = 1 THEN s[1] ELSE Max(s[1], MaxSeq(Tail(s)))

\* s[a:b] of a Python string or list, for 0 <= a.
Slice(s, a, b) ==
    LET hi == IF b > Len(s) THEN Len(s) ELSE b
    IN  IF a >= hi THEN <<>> ELSE SubSeq(s, a + 1, hi)

\* str.count("1")
RECURSIVE Count1(_)
Count1(s) ==
    IF s = <<>> THEN 0
    ELSE (IF Head(s) = "1" THEN 1 ELSE 0) + Count1(Tail(s))

Range(s) == {s[i] : i \in 1..Len(s)}

\* The element of a one-element set. {e(x) : x \in {v}} computes v once, where
\* LET x == v would compute it at every use of x.
Only(S) == CHOOSE x \in S : TRUE

\* randint(0, 100) < probability: 0 is below every positive probability and
\* 100 is below none (probability <= 100), so the two draws give both branches
\* exactly when some draw does.
Draw0to100 == {0, 100}
\* randint(0, 99) < 50
Draw0to99 == {0, 99}
\* randint(1, 10000) < mutationProbability * 10000, likewise.
Draw1to10000 == {1, 10000}

-----------------------------------------------------------------------------
(* numberToString: one scalar as a string of _length symbols.              *)

numberToStringEnter(_number, _length) ==
    [number |-> _number,
     padding |-> _length - _number,
     probability |-> PyRound(100 * (_length - _number), _length),
     string |-> <<>>]

numberToStringRunning(s) == s.number + s.padding > 0

\* A faulty pass: the tests number == 0 and padding == 0 are left out, so the
\* draw alone picks the symbol.
numberToStringPassUnguarded(s, r) ==
    IF r < s.probability
    THEN [s EXCEPT !.string = Append(@, "0"), !.padding = @ - 1]
    ELSE [s EXCEPT !.string = Append(@, "1"), !.number = @ - 1]

\* One pass of the while loop, with r the value randint(0, 100) returns.
numberToStringPass(s, r) ==
    IF s.number = 0
    THEN [s EXCEPT !.string = Append(@, "0"), !.padding = @ - 1]
    ELSE IF s.padding = 0
    THEN [s EXCEPT !.string = Append(@, "1"), !.number = @ - 1]
    ELSE IF r < s.probability
    THEN [s EXCEPT !.string = Append(@, "0"), !.padding = @ - 1]
    ELSE [s EXCEPT !.string = Append(@, "1"), !.number = @ - 1]

RECURSIVE numberToStringFrom(_)
numberToStringFrom(s) ==
    IF ~numberToStringRunning(s) THEN {s.string}
    ELSE UNION {numberToStringFrom(t) :
                t \in {numberToStringPass(s, r) : r \in Draw0to100}}

\* Every string some sequence of draws makes numberToString return.
numberToString(_number, _length) ==
    numberToStringFrom(numberToStringEnter(_number, _length))

-----------------------------------------------------------------------------
(* The problem model: __init__, getOperationDuration.                      *)

\* An operation duration: the same on every resource, or one per resource.
FixedDuration(d) == [kind |-> "int", v |-> <<d>>]
PerResource(ds) == [kind |-> "list", v |-> ds]

\* One entry operationRelations[op2][op1], in the dict's iteration order.
Relation(op2, op1, type, min, max, weight) ==
    [op2 |-> op2, op1 |-> op1, type |-> type, min |-> min, max |-> max,
     weight |-> weight]

\* "Evaluate the asapAlapMode": the bounds of one relation after __init__.
ResolveMode(mode, r) ==
    IF mode = "normal"
    THEN (IF r.min = None /\ r.max = None THEN [r EXCEPT !.min = Some(0)] ELSE r)
    ELSE IF mode = "asap"
    THEN (IF r.min # None THEN [r EXCEPT !.max = r.min] ELSE r)
    ELSE IF mode = "alap"
    THEN (IF r.max # None THEN [r EXCEPT !.min = r.max] ELSE r)
    ELSE r

\* The worst-case duration of one operation, as summed into operationMaxTime.
LongestDuration(d) == IF d.kind = "int" THEN d.v[1] ELSE MaxSeq(d.v)

\* A faulty offset: the larger bound, signs kept.
LargestOffsetSigned(r) ==
    LET rel_min == IF r.min # None THEN r.min[1] ELSE 0
        rel_max == IF r.max # None THEN r.max[1] ELSE 0
    IN  Max(rel_min, rel_max)

\* max( abs( rel_min ), abs( rel_max ) ) of one resolved relation.
LargestOffset(r) ==
    LET rel_min == IF r.min # None THEN r.min[1] ELSE 0
        rel_max == IF r.max # None THEN r.max[1] ELSE 0
    IN  Max(Abs(rel_min), Abs(rel_max))

\* crossMinStep / crossMaxStep: a float is a share of the genome length.
ResolveStep(step, maxTime, resourceCount, operationCount) ==
    IF step.kind = "float"
    THEN PyRound((maxTime + resourceCount - 1) * operationCount * step.num, step.den)
    ELSE step.num

\* GAS.__init__: the instance fields computed from _parameters.
GAS(_parameters) ==
    LET durations == _parameters.operationDurations
        relations == [i \in 1..Len(_parameters.operationRelations) |->
                         ResolveMode(_parameters.asapAlapMode,
                                     _parameters.operationRelations[i])]
        count == Len(durations)
        maxTime == SumSeq([i \in 1..count |-> LongestDuration(durations[i])])
                   + SumSeq([i \in 1..Len(relations) |-> LargestOffset(relations[i])])
    IN  [resourceCount |-> _parameters.resourceCount,
         survivalRate |-> _parameters.survivalRate,
         infuseRandomToPopulation |-> _parameters.infuseRandomToPopulation,
         mutationProbability |-> _parameters.mutationProbability,
         mutationSize |-> _parameters.mutationSize,
         asapAlapMode |-> _parameters.asapAlapMode,
         weightResourceSuccession |-> _parameters.weightResourceSuccession,
         historyKeep |-> _parameters.historyKeep,
         historyRetryCount |-> _parameters.historyRetryCount,
         averageScoreSampleSize |-> _parameters.averageScoreSampleSize,
         tournamentPopulationSize |-> _parameters.tournamentPopulationSize,
         tournamentSample |-> _parameters.tournamentSample,
         tournamentGenerations |-> _parameters.tournamentGenerations,
         operationDurations |-> durations,
         operationCount |-> count,
         operationRelations |-> relations,
         operationMaxTime |-> maxTime,
         crossMinStep |-> ResolveStep(_parameters.crossMinStep, maxTime,
                                      _parameters.resourceCount, count),
         crossMaxStep |-> ResolveStep(_parameters.crossMaxStep, maxTime,
                                      _parameters.resourceCount, count)]

\* A faulty lookup: the duration on resource 0, whatever _r is.
getOperationDurationFirst(c, _op, _r) == c.operationDurations[_op + 1].v[1]

\* getOperationDuration raises IndexError when a per-resource list has no
\* entry _r.
DurationDefined(c, _op, _r) ==
    LET d == c.operationDurations[_op + 1]
    IN  d.kind = "int" \/ (_r >= 0 /\ _r < Len(d.v))

getOperationDuration(c, _op, _r) ==
    LET d == c.operationDurations[_op + 1]
    IN  IF d.kind = "int" THEN d.v[1] ELSE d.v[_r + 1]

-----------------------------------------------------------------------------
(* scorePopulation.                                                        *)

\* The dict addRandomToPopulation and breedPopulation create. sub holds the
\* keys score_operationRelations, score_resourceSuccession and
\* score_fastestResource once scorePopulation has set them.
Individual(start_times, resources, genome) ==
    [start_times |-> start_times, resources |-> resources, score |-> 0,
     genome |-> genome, sub |-> None]

ValidTypes == {"SS", "SE", "ES", "EE"}

\* A faulty relation term: the SE branch compares the start of the second
\* operation, as the SS branch does.
RelationTermSlip(c, r, p) ==
    LET start2 == p.start_times[r.op2 + 1]
        end2 == start2 + getOperationDuration(c, r.op2, p.resources[r.op2 + 1])
        start1 == p.start_times[r.op1 + 1]
        end1 == start1 + getOperationDuration(c, r.op1, p.resources[r.op1 + 1])
        to == IF r.type \in {"SS", "SE", "ES"} THEN start2 ELSE end2
        from == IF r.type \in {"SS", "SE"} THEN start1 ELSE end1
        lower == IF r.min # None
                 THEN (IF to - (from + r.min[1]) < 0
                       THEN (to - (from + r.min[1])) * r.weight ELSE 0)
                 ELSE IF c.asapAlapMode = "asap" THEN -start2 ELSE 0
        upper == IF r.max # None
                 THEN (IF (from + r.max[1]) - to < 0
                       THEN ((from + r.max[1]) - to) * r.weight ELSE 0)
                 ELSE IF c.asapAlapMode = "alap" THEN start2 ELSE 0
    IN  lower + upper

\* What one relation adds to p["score"], for a relation of a valid type:
\* lines 223-277, branch by branch.
RelationTerm(c, r, p) ==
    LET start2 == p.start_times[r.op2 + 1]
        end2 == start2 + getOperationDuration(c, r.op2, p.resources[r.op2 + 1])
        start1 == p.start_times[r.op1 + 1]
        end1 == start1 + getOperationDuration(c, r.op1, p.resources[r.op1 + 1])
        below(threshold_min) ==
            IF r.min # None
            THEN (IF threshold_min < 0 THEN threshold_min * r.weight ELSE 0)
            ELSE IF c.asapAlapMode = "asap" THEN -start2 ELSE 0
        above(threshold_max) ==
            IF r.max # None
            THEN (IF threshold_max < 0 THEN threshold_max * r.weight ELSE 0)
            ELSE IF c.asapAlapMode = "alap" THEN start2 ELSE 0
        min == IF r.min # None THEN r.min[1] ELSE 0
        max == IF r.max # None THEN r.max[1] ELSE 0
    IN  IF r.type = "SS"
        THEN below(start2 - (start1 + min)) + above((start1 + max) - start2)
        ELSE IF r.type = "SE"
        THEN below(end2 - (start1 + min)) + above((start1 + max) - end2)
        ELSE IF r.type = "ES"
        THEN below(start2 - (end1 + min)) + above((end1 + max) - start2)
        ELSE below(end2 - (end1 + min)) + above((end1 + max) - end2)

\* The relations loop from relation i on. status: "ok", "False" (the early
\* return on an invalid type) or "IndexError" (getOperationDuration).
RECURSIVE ScoreRelations(_, _, _, _)
ScoreRelations(c, p, i, score) ==
    IF i > Len(c.operationRelations) THEN [score |-> score, status |-> "ok"]
    ELSE LET r == c.operationRelations[i]
         IN  IF ~DurationDefined(c, r.op2, p.resources[r.op2 + 1])
                \/ ~DurationDefined(c, r.op1, p.resources[r.op1 + 1])
             THEN [score |-> score, status |-> "IndexError"]
             ELSE IF r.type \notin ValidTypes
             THEN [score |-> score, status |-> "False"]
             ELSE ScoreRelations(c, p, i + 1, score + RelationTerm(c, r, p))

\* A faulty sort key: the start time alone.
OperationBeforeByStart(p, a, b) ==
    \/ p.start_times[a + 1] < p.start_times[b + 1]
    \/ p.start_times[a + 1] = p.start_times[b + 1] /\ a < b

\* sorted_operations: the operations ordered by (resource id, start time);
\* list.sort is stable, so equal keys stay in operation order.
OperationBefore(p, a, b) ==
    LET ra == p.resources[a + 1]
        rb == p.resources[b + 1]
        sa == p.start_times[a + 1]
        sb == p.start_times[b + 1]
    IN  \/ ra < rb
        \/ ra = rb /\ sa < sb
        \/ ra = rb /\ sa = sb /\ a < b

sorted_operations(c, p) ==
    LET ops == 0..(c.operationCount - 1)
        rank(a) == Cardinality({b \in ops : OperationBefore(p, b, a)})
    IN  [i \in 1..c.operationCount |-> CHOOSE a \in ops : rank(a) = i - 1]

\* A faulty succession loop: an operation that starts exactly when the one
\* before it ends is penalised too.
RECURSIVE ScoreSuccessionTouching(_, _, _, _, _)
ScoreSuccessionTouching(c, p, so, i, score) ==
    IF i > c.operationCount - 1 THEN [score |-> score, status |-> "ok"]
    ELSE LET op1 == so[i]
             op2 == so[i + 1]
             r1 == p.resources[op1 + 1]
             r2 == p.resources[op2 + 1]
         IN  IF r1 # r2 THEN ScoreSuccessionTouching(c, p, so, i + 1, score)
             ELSE IF ~DurationDefined(c, op1, r1)
             THEN [score |-> score, status |-> "IndexError"]
             ELSE IF p.start_times[op2 + 1]
                       <= p.start_times[op1 + 1] + getOperationDuration(c, op1, r1)
             THEN ScoreSuccessionTouching(c, p, so, i + 1,
                                          score - c.weightResourceSuccession)
             ELSE ScoreSuccessionTouching(c, p, so, i + 1, score)

\* The succession loop from position i (Python index) on.
RECURSIVE ScoreSuccession(_, _, _, _, _)
ScoreSuccession(c, p, so, i, score) ==
    IF i > c.operationCount - 1 THEN [score |-> score, status |-> "ok"]
    ELSE LET op1 == so[i]
             op2 == so[i + 1]
             r1 == p.resources[op1 + 1]
             r2 == p.resources[op2 + 1]
         IN  IF r1 # r2 THEN ScoreSuccession(c, p, so, i + 1, score)
             ELSE IF ~DurationDefined(c, op1, r1)
             THEN [score |-> score, status |-> "IndexError"]
             ELSE IF p.start_times[op2 + 1]
                       < p.start_times[op1 + 1] + getOperationDuration(c, op1, r1)
             THEN ScoreSuccession(c, p, so, i + 1, score - c.weightResourceSuccession)
             ELSE ScoreSuccession(c, p, so, i + 1, score)

\* A faulty fastest-resource loop: the durations are added, not subtracted.
RECURSIVE ScoreFastestAdded(_, _, _, _)
ScoreFastestAdded(c, p, op, score) ==
    IF op > c.operationCount - 1 THEN [score |-> score, status |-> "ok"]
    ELSE IF ~DurationDefined(c, op, p.resources[op + 1])
    THEN [score |-> score, status |-> "IndexError"]
    ELSE ScoreFastestAdded(c, p, op + 1,
                           score + getOperationDuration(c, op, p.resources[op + 1]))

\* The fastest-resource loop from operation op on.
RECURSIVE ScoreFastest(_, _, _, _)
ScoreFastest(c, p, op, score) ==
    IF op > c.operationCount - 1 THEN [score |-> score, status |-> "ok"]
    ELSE IF ~DurationDefined(c, op, p.resources[op + 1])
    THEN [score |-> score, status |-> "IndexError"]
    ELSE ScoreFastest(c, p, op + 1,
                      score - getOperationDuration(c, op, p.resources[op + 1]))

\* The body of scorePopulation's loop for one member p: the dict afterwards
\* and how the body ended. When it does not end "ok" the dict keeps the score
\* accumulated so far and the sub-scores it had.
ScoreIndividual(c, p) ==
    Only({IF rel.status # "ok"
          THEN [p |-> [p EXCEPT !.score = rel.score], status |-> rel.status]
          ELSE Only({IF suc.status # "ok"
                     THEN [p |-> [p EXCEPT !.score = suc.score],
                           status |-> suc.status]
                     ELSE Only({IF fast.status # "ok"
                                THEN [p |-> [p EXCEPT !.score = fast.score],
                                      status |-> fast.status]
                                ELSE [p |-> [p EXCEPT
                                               !.score = fast.score,
                                               !.sub = <<rel.score,
                                                         suc.score - rel.score,
                                                         fast.score - suc.score>>],
                                      status |-> "ok"] :
                                fast \in {ScoreFastest(c, p, 0, suc.score)}}) :
                     suc \in {ScoreSuccession(c, p, so, 1, rel.score) :
                                 so \in {sorted_operations(c, p)}}}) :
          rel \in {ScoreRelations(c, p, 1, 0)}})

\* scorePopulation over self.population from member i on: the heap afterwards
\* and "ok" (returned True), "False" or "IndexError".
RECURSIVE scorePopulationFrom(_, _, _, _)
scorePopulationFrom(c, pop, h, i) ==
    IF i > Len(pop) THEN [heap |-> h, status |-> "ok"]
    ELSE Only({IF one.status # "ok"
               THEN [heap |-> [h EXCEPT ![pop[i]] = one.p], status |-> one.status]
               ELSE Only({scorePopulationFrom(c, pop, h2, i + 1) :
                          h2 \in {[h EXCEPT ![pop[i]] = one.p]}}) :
               one \in {ScoreIndividual(c, h[pop[i]])}})

scorePopulation(c, pop, h) == scorePopulationFrom(c, pop, h, 1)

\* population.sort( key = score, reverse = True ): descending and stable.
SortByScore(pop, h) ==
    LET before(i, j) == \/ h[pop[i]].score > h[pop[j]].score
                        \/ h[pop[i]].score = h[pop[j]].score /\ i < j
        rank(i) == Cardinality({j \in 1..Len(pop) : before(j, i)})
    IN  [k \in 1..Len(pop) |-> pop[CHOOSE i \in 1..Len(pop) : rank(i) = k - 1]]

-----------------------------------------------------------------------------
(* The genome codec: calculatePopulationGenome, genomeToValues.            *)

\* The length of a resource id's sub-range: resourceCount - 1, or 1.
ResourceLength(c) == IF c.resourceCount > 1 THEN c.resourceCount - 1 ELSE 1

\* A faulty segment: the resource sub-range taken as resourceCount - 1 bits
\* also when there is one resource.
SegmentUnguarded(c) == c.operationMaxTime + c.resourceCount - 1

\* genomeToValues: segment
Segment(c) == c.operationMaxTime + ResourceLength(c)

\* The genomes calculatePopulationGenome can give one member: operation i's
\* start time, then its resource id, for every operation from i on.
RECURSIVE GenomesFrom(_, _, _)
GenomesFrom(c, p, i) ==
    IF i > c.operationCount THEN {<<>>}
    ELSE {st \o r \o rest :
            st \in numberToString(p.start_times[i], c.operationMaxTime),
            r \in numberToString(p.resources[i], ResourceLength(c)),
            rest \in GenomesFrom(c, p, i + 1)}

\* calculatePopulationGenome over self.population from member i on: every
\* heap it can leave.
RECURSIVE calculatePopulationGenomeFrom(_, _, _, _)
calculatePopulationGenomeFrom(c, pop, h, i) ==
    IF i > Len(pop) THEN {h}
    ELSE UNION {calculatePopulationGenomeFrom(c, pop, h2, i + 1) :
                h2 \in {[h EXCEPT ![pop[i]].genome = genome] :
                          genome \in GenomesFrom(c, h[pop[i]], 1)}}

calculatePopulationGenome(c, pop, h) == calculatePopulationGenomeFrom(c, pop, h, 1)

\* genomeToValues: <<start_times, resources>>.
genomeToValues(c, _genome) ==
    LET segment == Segment(c)
        st_from(i) == i * segment
        st_to(i) == i * segment + c.operationMaxTime
        r_from(i) == i * segment + c.operationMaxTime
        r_to(i) == (i + 1) * segment
    IN  <<[k \in 1..c.operationCount |->
              Count1(Slice(_genome, st_from(k - 1), st_to(k - 1)))],
          [k \in 1..c.operationCount |->
              Count1(Slice(_genome, r_from(k - 1), r_to(k - 1)))]>>

-----------------------------------------------------------------------------
(* crossTwoGenomes.                                                        *)

\* Line 418: randint( a, b ) raises ValueError when a > b.
EmptyStepRange(c) == c.crossMinStep > c.crossMaxStep

crossEnter == [index |-> 0, result_genome |-> <<>>, pc |-> "cross"]

\* A faulty pass: the slice copied is one symbol longer than the step.
crossPassOverlap(s, _genome1, _genome2, step, coin) ==
    LET genome_length == Len(_genome1)
        from == IF coin < 50 THEN _genome1 ELSE _genome2
    IN  IF step > genome_length - (s.index + 1)
        THEN [s EXCEPT !.result_genome = @ \o Slice(from, s.index, Len(from)),
                       !.pc = "mutate"]
        ELSE [s EXCEPT !.result_genome =
                           @ \o Slice(from, s.index, s.index + step + 1),
                       !.index = @ + step]

\* A faulty pass: the slice is taken from the start of the parent.
crossPassFromStart(s, _genome1, _genome2, step, coin) ==
    LET genome_length == Len(_genome1)
        from == IF coin < 50 THEN _genome1 ELSE _genome2
    IN  IF step > genome_length - (s.index + 1)
        THEN [s EXCEPT !.result_genome = @ \o Slice(from, s.index, Len(from)),
                       !.pc = "mutate"]
        ELSE [s EXCEPT !.result_genome = @ \o Slice(from, 0, step),
                       !.index = @ + step]

\* One pass of the while loop: step is the drawn step, coin the draw that
\* picks the parent.
crossPass(s, _genome1, _genome2, step, coin) ==
    LET genome_length == Len(_genome1)
        from == IF coin < 50 THEN _genome1 ELSE _genome2
    IN  IF step > genome_length - (s.index + 1)
        THEN [s EXCEPT !.result_genome = @ \o Slice(from, s.index, Len(from)),
                       !.pc = "mutate"]
        ELSE [s EXCEPT !.result_genome = @ \o Slice(from, s.index, s.index + step),
                       !.index = @ + step]

\* randint( 1, 10000 ) < self.mutationProbability * 10000, drawn as d.
MutationTriggered(c, d) ==
    /\ c.mutationProbability[1] > 0
    /\ d * c.mutationProbability[2] < c.mutationProbability[1] * 10000

number_of_mutations(c, result_genome) ==
    IF c.mutationSize.kind = "float"
    THEN PyRound(Len(result_genome) * c.mutationSize.num, c.mutationSize.den)
    ELSE c.mutationSize.num

\* A faulty mutation: the symbol is written to every position from p on.
MutateFromPosition(result_genome, p, coin) ==
    [i \in 1..Len(result_genome) |->
        IF i >= p + 1 THEN (IF coin < 50 THEN "0" ELSE "1") ELSE result_genome[i]]

\* result_genome[ p ] = "0" if randint( 0, 99 ) < 50 else "1"
MutateAt(result_genome, p, coin) ==
    [result_genome EXCEPT ![p + 1] = IF coin < 50 THEN "0" ELSE "1"]

\* The genomes the while loop can end with. A pass whose step is 0 changes
\* nothing and is drawn again, so it adds no result.
RECURSIVE crossFrom(_, _, _, _)
crossFrom(c, s, _genome1, _genome2) ==
    IF s.pc # "cross" THEN {s.result_genome}
    ELSE UNION {crossFrom(c, t, _genome1, _genome2) :
                t \in {crossPass(s, _genome1, _genome2, step, coin) :
                          step \in c.crossMinStep..c.crossMaxStep,
                          coin \in Draw0to99} \ {s}}

\* The genomes n more assignments can turn result_genome into.
RECURSIVE MutateFrom(_, _)
MutateFrom(result_genome, n) ==
    IF n <= 0 THEN {result_genome}
    ELSE UNION {MutateFrom(mutated, n - 1) :
                mutated \in {MutateAt(result_genome, p, coin) :
                               p \in 0..(Len(result_genome) - 1),
                               coin \in Draw0to99}}

\* Every genome crossTwoGenomes can return.
crossTwoGenomes(c, _genome1, _genome2) ==
    LET crossed == crossFrom(c, crossEnter, _genome1, _genome2)
    IN  UNION {{x : d \in {e \in Draw1to10000 : ~MutationTriggered(c, e)}}
               \cup UNION {MutateFrom(x, number_of_mutations(c, x)) :
                           d \in {e \in Draw1to10000 : MutationTriggered(c, e)}} :
               x \in crossed}

-----------------------------------------------------------------------------
(* The heap of individuals.                                                *)

\* Enough object ids for a parent pool, the offspring being bred from it and
\* the tournament population to be alive together.
OIDs == 1..(MaxPopLen + 6)

Free == [free |-> TRUE]

EmptyHeap == [o \in OIDs |-> Free]

\* A new dict gets an id no live dict has: the lowest one.
Alloc(h) ==
    LET free == {o \in OIDs : h[o] = Free}
    IN  CHOOSE o \in free : \A q \in free : o <= q

\* Dicts no list refers to any more are freed.
Collect(h, pop, newpop, tpop) ==
    [o \in OIDs |-> IF o \in Range(pop) \cup Range(newpop) \cup Range(tpop)
                    THEN h[o] ELSE Free]

\* A faulty copy: the dict itself is returned, not a copy of it.
getIndividualAsAlias(h, source, i) == [oid |-> source[i + 1], heap |-> h]

\* getIndividualAsACopy( source, i ): a new dict with the four copied keys.
getIndividualAsACopy(h, source, i) ==
    Only({[oid |-> o,
           heap |-> [h EXCEPT ![o] = [start_times |-> src.start_times,
                                      resources |-> src.resources,
                                      score |-> src.score,
                                      genome |-> src.genome,
                                      sub |-> None]]] :
          o \in {Alloc(h)}, src \in {h[source[i + 1]]}})

-----------------------------------------------------------------------------
(* reset, addRandomToPopulation.                                           *)

\* The (start_times, resources) pairs the randint draws can give.
RandomValues(c) ==
    {<<st, r>> : st \in [1..c.operationCount -> 0..c.operationMaxTime],
                 r \in [1..c.operationCount -> 0..(c.resourceCount - 1)]}

\* The history loop of addRandomToPopulation from try i on, with the pair
\* drawn so far: every <<pair, history>> it can end with.
RECURSIVE RandomHistoryLoop(_, _, _, _)
RandomHistoryLoop(c, pair, hist, i) ==
    IF i >= c.historyRetryCount THEN {<<pair, hist>>}
    ELSE IF pair \notin Range(hist) THEN {<<pair, Append(hist, pair)>>}
    ELSE UNION {RandomHistoryLoop(c, again, hist, i + 1) : again \in RandomValues(c)}

\* One pass of addRandomToPopulation's loop: every state it can leave.
AddOneRandom(c, st) ==
    {[population |-> Append(st.population, Alloc(st.heap)),
      heap |-> [st.heap EXCEPT
                  ![Alloc(st.heap)] = Individual(out[1][1], out[1][2], <<>>)],
      history |-> out[2]] :
     out \in UNION {IF c.historyKeep
                    THEN RandomHistoryLoop(c, pair, st.history, 0)
                    ELSE {<<pair, st.history>>} : pair \in RandomValues(c)}}

\* addRandomToPopulation( _n ): every [population, heap, history] it can leave.
RECURSIVE addRandomToPopulation(_, _, _)
addRandomToPopulation(c, st, _n) ==
    IF _n <= 0 THEN {st}
    ELSE UNION {addRandomToPopulation(c, t, _n - 1) : t \in AddOneRandom(c, st)}

-----------------------------------------------------------------------------
(* breedPopulation, one step at a time.                                    *)

Roots(pop, newpop) == Collect(heap, pop, newpop, tournamentPopulation)

\* An uncaught exception ends the program where it stands.
Raise(e, pop, h) ==
    /\ phase' = "CRASHED"
    /\ err' = e
    /\ population' = pop
    /\ heap' = h
    /\ UNCHANGED <<cfg, populationSize, history, averageScoreSample, averageScore,
                   tournamentPopulation, new_population, bpc, g, enc, crs>>

\* Lines 360-366: <<averageScoreSample, averageScore>> after one generation.
AverageScoreUpdate(c, scores, size, sample, avg) ==
    IF c.averageScoreSampleSize > 0
    THEN LET average == TruncDiv(SumSeq(scores), size)
             appended == Append(sample, average)
         IN  IF Len(appended) > c.averageScoreSampleSize
             THEN <<Tail(appended),
                    Some(<<SumSeq(Tail(appended)), c.averageScoreSampleSize>>)>>
             ELSE <<appended, avg>>
    ELSE <<sample, avg>>

\* The caller is at a call of breedPopulation.
BreedCalled ==
    /\ bpc = "idle"
    /\ \/ phase = "script"
       \/ phase = "SAMPLING" /\ g < cfg.tournamentGenerations
       \/ phase = "STEADY"

\* Lines 354-366: score, sort, print the best, record the average.
BreedScoreSort(do_print) ==
    /\ BreedCalled
    /\ phase # "script" => do_print
    /\ \E scored \in {scorePopulation(cfg, population, heap)} :
       \E sorted \in {SortByScore(population, scored.heap)} :
       \E avg \in {AverageScoreUpdate(
                       cfg, [i \in 1..Len(sorted) |-> scored.heap[sorted[i]].score],
                       populationSize, averageScoreSample, averageScore)} :
           IF scored.status = "IndexError"
           THEN Raise("IndexError", population, scored.heap)
           ELSE IF do_print /\ sorted = <<>>
           THEN Raise("IndexError", sorted, scored.heap)
           ELSE IF do_print /\ scored.heap[sorted[1]].sub = None
           THEN Raise("KeyError", sorted, scored.heap)
           ELSE /\ population' = sorted
                /\ heap' = scored.heap
                /\ averageScoreSample' = avg[1]
                /\ averageScore' = avg[2]
                /\ bpc' = "truncate"
                /\ UNCHANGED <<cfg, populationSize, history, tournamentPopulation,
                               new_population, phase, g, err, enc, crs>>

\* survivors = int( round( self.survivalRate * self.populationSize ) )
Survivors(c, size) == PyRound(c.survivalRate[1] * size, c.survivalRate[2])

\* Lines 370-371: del self.population[ -1 ], once for every i in
\* range( survivors, populationSize ).
Truncate(pop, survivors, size) ==
    LET deletions == IF size > survivors THEN size - survivors ELSE 0
    IN  IF deletions > Len(pop) THEN [population |-> <<>>, status |-> "IndexError"]
        ELSE [population |-> SubSeq(pop, 1, Len(pop) - deletions), status |-> "ok"]

\* Lines 369-371.
BreedTruncate ==
    /\ bpc = "truncate"
    /\ phase \in {"script", "SAMPLING", "STEADY"}
    /\ \E cut \in {Truncate(population, Survivors(cfg, populationSize),
                              populationSize)} :
           IF cut.status = "IndexError"
           THEN Raise("IndexError", cut.population, Roots(cut.population, <<>>))
           ELSE /\ population' = cut.population
                /\ heap' = Roots(cut.population, <<>>)
                /\ bpc' = "infuse"
                /\ UNCHANGED <<cfg, populationSize, history, averageScoreSample,
                               averageScore, tournamentPopulation, new_population,
                               phase, g, err, enc, crs>>

\* Lines 374-377: every [population, heap, history, status] the infusion and
\* the second scoring can leave.
Infuse(c, st) ==
    IF c.infuseRandomToPopulation > 0
    THEN UNION {{[population |-> t.population, heap |-> scored.heap,
                  history |-> t.history, status |-> scored.status] :
                 scored \in {scorePopulation(c, t.population, t.heap)}} :
                t \in addRandomToPopulation(c, st, c.infuseRandomToPopulation)}
    ELSE {[population |-> st.population, heap |-> st.heap,
           history |-> st.history, status |-> "ok"]}

\* Lines 374-382: infusion, genomes for the parent pool, new_population = [].
BreedInfuse ==
    /\ bpc = "infuse"
    /\ phase \in {"script", "SAMPLING", "STEADY"}
    /\ \E t \in Infuse(cfg, [population |-> population, heap |-> heap,
                             history |-> history]) :
          IF t.status = "IndexError"
          THEN /\ history' = t.history
               /\ phase' = "CRASHED"
               /\ err' = "IndexError"
               /\ population' = t.population
               /\ heap' = t.heap
               /\ UNCHANGED <<cfg, populationSize, averageScoreSample, averageScore,
                              tournamentPopulation, new_population, bpc, g, enc, crs>>
          ELSE /\ heap' \in calculatePopulationGenome(cfg, t.population, t.heap)
               /\ population' = t.population
               /\ history' = t.history
               /\ new_population' = <<>>
               /\ bpc' = "offspring"
               /\ UNCHANGED <<cfg, populationSize, averageScoreSample, averageScore,
                              tournamentPopulation, phase, g, err, enc, crs>>

\* Lines 384-390 and 398-400: the genomes a cross of two random members of the
\* parent pool can give.
PoolChildren(c, pop, h) ==
    UNION {crossTwoGenomes(c, h[pop[p1]].genome, h[pop[p2]].genome) :
           p1 \in 1..Len(pop), p2 \in 1..Len(pop)}

\* The history loop of breedPopulation (lines 393-401) from try i on, with
\* the genome bred so far: every <<new_genome, history>> it can end with.
RECURSIVE OffspringHistoryLoop(_, _, _, _, _)
OffspringHistoryLoop(c, new_genome, hist, i, children) ==
    IF i >= c.historyRetryCount THEN {<<new_genome, hist>>}
    ELSE IF genomeToValues(c, new_genome) \notin Range(hist)
    THEN {<<new_genome, Append(hist, genomeToValues(c, new_genome))>>}
    ELSE UNION {OffspringHistoryLoop(c, again, hist, i + 1, children) :
                again \in children}

\* How many members the new population gets: range( self.populationSize ).
OffspringWanted(size, pop) == size

\* Lines 383-404, one pass: one more member of new_population.
BreedOffspring ==
    /\ bpc = "offspring"
    /\ phase \in {"script", "SAMPLING", "STEADY"}
    /\ Len(new_population) < OffspringWanted(populationSize, population)
    /\ IF population = <<>> \/ EmptyStepRange(cfg)
       THEN Raise("ValueError", population, heap)
       ELSE \E children \in {PoolChildren(cfg, population, heap)} :
            \E out \in UNION {IF cfg.historyKeep
                              THEN OffspringHistoryLoop(cfg, first, history, 0,
                                                        children)
                              ELSE {<<first, history>>} : first \in children} :
            \E o \in {Alloc(heap)} :
            \E values \in {genomeToValues(cfg, out[1])} :
                       /\ heap' = [heap EXCEPT
                                     ![o] = Individual(values[1], values[2], out[1])]
                       /\ new_population' = Append(new_population, o)
                       /\ history' = out[2]
                       /\ UNCHANGED <<cfg, populationSize, population,
                                      averageScoreSample, averageScore,
                                      tournamentPopulation, phase, bpc, g, err,
                                      enc, crs>>

\* A faulty replacement: the best member of the old population is carried over.
ReplaceKeepingBest(pop, newpop) == <<pop[1]>> \o Tail(newpop)

\* Lines 406-407: the population the call leaves.
Replace(pop, newpop) == newpop

\* A faulty end of a generation: a sampling run is over after any generation.
BreedReplaceEarly ==
    /\ bpc = "offspring"
    /\ phase \in {"script", "SAMPLING", "STEADY"}
    /\ Len(new_population) >= OffspringWanted(populationSize, population)
    /\ population' = Replace(population, new_population)
    /\ new_population' = <<>>
    /\ heap' = Collect(heap, population', <<>>, tournamentPopulation)
    /\ bpc' = "idle"
    /\ g' = IF phase = "SAMPLING" THEN g + 1 ELSE g
    /\ phase' = IF phase = "SAMPLING" THEN "ACCUMULATING" ELSE phase
    /\ UNCHANGED <<cfg, populationSize, history, averageScoreSample, averageScore,
                   tournamentPopulation, err, enc, crs>>

\* Lines 406-409: the new population replaces the old one; the call returns.
BreedReplace ==
    /\ bpc = "offspring"
    /\ phase \in {"script", "SAMPLING", "STEADY"}
    /\ Len(new_population) >= OffspringWanted(populationSize, population)
    /\ population' = Replace(population, new_population)
    /\ new_population' = <<>>
    /\ heap' = Collect(heap, population', <<>>, tournamentPopulation)
    /\ bpc' = "idle"
    /\ g' = IF phase = "SAMPLING" THEN g + 1 ELSE g
    /\ phase' = IF phase = "SAMPLING" /\ g + 1 >= cfg.tournamentGenerations
                THEN "ACCUMULATING" ELSE phase
    /\ UNCHANGED <<cfg, populationSize, history, averageScoreSample, averageScore,
                   tournamentPopulation, err, enc, crs>>

-----------------------------------------------------------------------------
(* The engine driven by a script: reset, addRandomToPopulation and         *)
(* breedPopulation in any order.                                           *)

\* A faulty reset: the history is kept.
ResetKeepingHistory ==
    /\ phase = "script"
    /\ bpc = "idle"
    /\ population' = <<>>
    /\ averageScoreSample' = <<>>
    /\ averageScore' = None
    /\ heap' = Collect(heap, <<>>, <<>>, tournamentPopulation)
    /\ UNCHANGED <<cfg, populationSize, history, tournamentPopulation,
                   new_population, phase, bpc, g, err, enc, crs>>

\* reset()
Reset ==
    /\ phase = "script"
    /\ bpc = "idle"
    /\ population' = <<>>
    /\ history' = <<>>
    /\ averageScoreSample' = <<>>
    /\ averageScore' = None
    /\ heap' = Collect(heap, <<>>, <<>>, tournamentPopulation)
    /\ UNCHANGED <<cfg, populationSize, tournamentPopulation, new_population,
                   phase, bpc, g, err, enc, crs>>

\* addRandomToPopulation( _n )
AddRandom(_n) ==
    /\ phase = "script"
    /\ bpc = "idle"
    /\ Len(population) + _n <= MaxPopLen
    /\ \E t \in addRandomToPopulation(cfg, [population |-> population,
                                            heap |-> heap,
                                            history |-> history], _n) :
          /\ population' = t.population
          /\ heap' = t.heap
          /\ history' = t.history
    /\ UNCHANGED <<cfg, populationSize, averageScoreSample, averageScore,
                   tournamentPopulation, new_population, phase, bpc, g, err,
                   enc, crs>>

-----------------------------------------------------------------------------
(* tournament().                                                           *)

\* A faulty test: full only once the size is exceeded.
TournamentFullLate(c, tpop) == Len(tpop) > c.tournamentPopulationSize

\* Line 480: len( self.tournamentPopulation ) == self.tournamentPopulationSize
TournamentFull(c, tpop) == Len(tpop) = c.tournamentPopulationSize

\* Lines 478-482 from i on: the tournament population, the heap and how the
\* loop ended: "full" (keepbreeding = False), "more" or "IndexError".
RECURSIVE HarvestFrom(_, _, _, _, _)
HarvestFrom(c, pop, tpop, h, i) ==
    IF i >= c.tournamentSample
    THEN [tournamentPopulation |-> tpop, heap |-> h, status |-> "more"]
    ELSE IF i >= Len(pop)
    THEN [tournamentPopulation |-> tpop, heap |-> h, status |-> "IndexError"]
    ELSE Only({Only({IF TournamentFull(c, grown)
                     THEN [tournamentPopulation |-> grown, heap |-> copy.heap,
                           status |-> "full"]
                     ELSE HarvestFrom(c, pop, grown, copy.heap, i + 1) :
                     grown \in {Append(tpop, copy.oid)}}) :
               copy \in {getIndividualAsACopy(h, pop, i)}})

\* Line 488: the copies of self.tournamentPopulation[ i ] from i on.
RECURSIVE SeedFrom(_, _, _, _, _)
SeedFrom(c, tpop, pop, h, i) ==
    IF i >= c.tournamentPopulationSize THEN [population |-> pop, heap |-> h]
    ELSE Only({Only({SeedFrom(c, tpop, grown, copy.heap, i + 1) :
                     grown \in {Append(pop, copy.oid)}}) :
               copy \in {getIndividualAsACopy(h, tpop, i)}})

\* Lines 474-475: a run starts with reset() and a random population.
SampleStart ==
    /\ phase = "SAMPLING"
    /\ bpc = "reset"
    /\ \E t \in addRandomToPopulation(
                   cfg, [population |-> <<>>,
                         heap |-> Collect(heap, <<>>, <<>>, tournamentPopulation),
                         history |-> <<>>], populationSize) :
          /\ population' = t.population
          /\ heap' = t.heap
          /\ history' = t.history
    /\ averageScoreSample' = <<>>
    /\ averageScore' = None
    /\ bpc' = "idle"
    /\ g' = 0
    /\ UNCHANGED <<cfg, populationSize, tournamentPopulation, new_population,
                   phase, err, enc, crs>>

\* Lines 478-482: the first tournamentSample members of the population are
\* copied into the tournament population, until it is full.
Harvest ==
    /\ phase = "ACCUMULATING"
    /\ \E out \in {HarvestFrom(cfg, population, tournamentPopulation, heap, 0)} :
           /\ tournamentPopulation' = out.tournamentPopulation
           /\ heap' = out.heap
           /\ phase' = IF out.status = "IndexError" THEN "CRASHED"
                       ELSE IF out.status = "full" THEN "STEADY" ELSE "SAMPLING"
           /\ err' = IF out.status = "IndexError" THEN "IndexError" ELSE err
           /\ bpc' = IF out.status = "IndexError" THEN bpc
                     ELSE IF out.status = "full" THEN "seed" ELSE "reset"
    /\ UNCHANGED <<cfg, populationSize, population, history, averageScoreSample,
                   averageScore, new_population, g, enc, crs>>

\* Lines 486-488: reset(), populationSize = tournamentPopulationSize and a
\* population of copies of the tournament population.
SteadySeed ==
    /\ phase = "STEADY"
    /\ bpc = "seed"
    /\ \E seeded \in {SeedFrom(cfg, tournamentPopulation, <<>>,
                                Collect(heap, <<>>, <<>>, tournamentPopulation), 0)} :
           /\ population' = seeded.population
           /\ heap' = seeded.heap
    /\ history' = <<>>
    /\ averageScoreSample' = <<>>
    /\ averageScore' = None
    /\ populationSize' = cfg.tournamentPopulationSize
    /\ bpc' = "idle"
    /\ UNCHANGED <<cfg, tournamentPopulation, new_population, phase, g, err,
                   enc, crs>>

\* A faulty try block: one that encloses the whole of tournament().
InTryBlockWide(ph) == ph \in {"SAMPLING", "ACCUMULATING", "STEADY"}

\* The try block of lines 485-491 encloses the code of this phase.
InTryBlock(ph) == ph = "STEADY"

\* Ctrl+C: KeyboardInterrupt is raised wherever the program stands. Inside
\* the try block it leads to the prompt of line 492; anywhere else nothing
\* catches it. bpc keeps the position the exception was raised at.
Interrupt ==
    /\ phase \in {"SAMPLING", "ACCUMULATING", "STEADY", "PAUSED"}
    /\ phase' = IF InTryBlock(phase) THEN "PAUSED" ELSE "CRASHED"
    /\ err' = IF InTryBlock(phase) THEN err ELSE "KeyboardInterrupt"
    /\ new_population' = <<>>
    /\ heap' = Collect(heap, population, <<>>, tournamentPopulation)
    /\ UNCHANGED <<cfg, populationSize, population, history, averageScoreSample,
                   averageScore, tournamentPopulation, bpc, g, enc, crs>>

\* Lines 492-494 with reply == "": the outer loop starts the steady phase again.
Resume ==
    /\ phase = "PAUSED"
    /\ phase' = "STEADY"
    /\ bpc' = "seed"
    /\ UNCHANGED <<cfg, populationSize, population, heap, history,
                   averageScoreSample, averageScore, tournamentPopulation,
                   new_population, g, err, enc, crs>>

\* Lines 492-494 with any other reply: break, and tournament() returns.
Terminate ==
    /\ phase = "PAUSED"
    /\ phase' = "TERMINATED"
    /\ UNCHANGED <<cfg, populationSize, population, heap, history,
                   averageScoreSample, averageScore, tournamentPopulation,
                   new_population, bpc, g, err, enc, crs>>

-----------------------------------------------------------------------------
(* The configurations explored.                                            *)

\* One operation, faster on resource 0 than on resource 1.
OneOperation(resourceCount) ==
    [resourceCount |-> resourceCount,
     operationDurations |-> <<PerResource([r \in 1..resourceCount |-> r])>>,
     operationRelations |-> <<>>,
     asapAlapMode |-> "normal",
     weightResourceSuccession |-> 1]

\* _parameters: a problem and the settings of the engine.
Parameters(problem, engine) ==
    [resourceCount |-> problem.resourceCount,
     populationSize |-> engine.populationSize,
     survivalRate |-> engine.survivalRate,
     infuseRandomToPopulation |-> engine.infuseRandomToPopulation,
     mutationProbability |-> engine.mutationProbability,
     mutationSize |-> engine.mutationSize,
     asapAlapMode |-> problem.asapAlapMode,
     weightResourceSuccession |-> problem.weightResourceSuccession,
     historyKeep |-> engine.historyKeep,
     historyRetryCount |-> engine.historyRetryCount,
     averageScoreSampleSize |-> engine.averageScoreSampleSize,
     tournamentPopulationSize |-> engine.tournamentPopulationSize,
     tournamentSample |-> engine.tournamentSample,
     tournamentGenerations |-> engine.tournamentGenerations,
     operationDurations |-> problem.operationDurations,
     operationRelations |-> problem.operationRelations,
     crossMinStep |-> engine.crossMinStep,
     crossMaxStep |-> engine.crossMaxStep]

\* Two members, half of them survive, no infusion, no mutation, no history.
Plain ==
    [populationSize |-> 2,
     survivalRate |-> <<1, 2>>,
     infuseRandomToPopulation |-> 0,
     mutationProbability |-> <<0, 1>>,
     mutationSize |-> IntP(1),
     historyKeep |-> FALSE,
     historyRetryCount |-> 0,
     averageScoreSampleSize |-> 0,
     tournamentPopulationSize |-> 2,
     tournamentSample |-> 1,
     tournamentGenerations |-> 1,
     crossMinStep |-> IntP(1),
     crossMaxStep |-> IntP(2)]

ScriptParameters ==
    {Parameters(OneOperation(2), Plain),
     Parameters(OneOperation(2), [Plain EXCEPT !.populationSize = 3]),
     Parameters(OneOperation(2), [Plain EXCEPT !.populationSize = 1,
                                               !.survivalRate = <<1, 1>>,
                                               !.averageScoreSampleSize = 1]),
     Parameters(OneOperation(2), [Plain EXCEPT !.infuseRandomToPopulation = 1]),
     Parameters(OneOperation(2), [Plain EXCEPT !.mutationProbability = <<1, 1>>,
                                               !.mutationSize = FloatP(1, 2),
                                               !.crossMinStep = FloatP(1, 2),
                                               !.crossMaxStep = FloatP(1, 1)]),
     Parameters(OneOperation(1), Plain),
     Parameters(OneOperation(1), [Plain EXCEPT !.infuseRandomToPopulation = 1,
                                               !.mutationProbability = <<1, 2>>])}

TournamentParameters ==
    {Parameters(OneOperation(2), Plain),
     Parameters(OneOperation(2), [Plain EXCEPT !.tournamentSample = 2,
                                               !.tournamentGenerations = 2]),
     Parameters(OneOperation(2), [Plain EXCEPT !.survivalRate = <<1, 1>>,
                                               !.mutationProbability = <<1, 2>>,
                                               !.tournamentPopulationSize = 1,
                                               !.tournamentSample = 2]),
     Parameters(OneOperation(1), [Plain EXCEPT !.populationSize = 1,
                                               !.survivalRate = <<1, 1>>,
                                               !.tournamentSample = 2])}

Idle == [pc |-> "idle"]

\* After GAS( _parameters ): nothing has run yet.
Constructed(_parameters) ==
    /\ cfg = GAS(_parameters)
    /\ populationSize = _parameters.populationSize
    /\ population = <<>>
    /\ heap = EmptyHeap
    /\ history = <<>>
    /\ averageScoreSample = <<>>
    /\ averageScore = None
    /\ tournamentPopulation = <<>>
    /\ new_population = <<>>
    /\ g = 0
    /\ err = ""

-----------------------------------------------------------------------------
(* Spec: a script calls reset, addRandomToPopulation and breedPopulation.  *)

Init ==
    /\ \E _parameters \in ScriptParameters : Constructed(_parameters)
    /\ phase = "script"
    /\ bpc = "idle"
    /\ enc = Idle
    /\ crs = Idle

Next ==
    \/ Reset
    \/ \E _n \in 1..MaxPopLen : AddRandom(_n)
    \/ \E do_print \in BOOLEAN : BreedScoreSort(do_print)
    \/ BreedTruncate
    \/ BreedInfuse
    \/ BreedOffspring
    \/ BreedReplace

Spec == Init /\ [][Next]_vars

-----------------------------------------------------------------------------
(* SpecMisconfigured: the same script on an instance built from            *)
(* _parameters the comments of __init__ and scorePopulation rule out.      *)

\* Two operations of one time unit on one resource, with a relation whose
\* type is none of SS, SE, ES, EE.
InvalidRelation ==
    [resourceCount |-> 1,
     operationDurations |-> <<FixedDuration(1), FixedDuration(1)>>,
     operationRelations |-> <<Relation(1, 0, "XX", Some(0), None, 1)>>,
     asapAlapMode |-> "normal",
     weightResourceSuccession |-> 1]

\* crossMinStep above crossMaxStep, and a relation of an invalid type.
MisconfiguredParameters ==
    {Parameters(OneOperation(2), [Plain EXCEPT !.crossMinStep = IntP(2),
                                               !.crossMaxStep = IntP(1)]),
     Parameters(OneOperation(2), [Plain EXCEPT !.crossMinStep = FloatP(1, 1),
                                               !.crossMaxStep = FloatP(1, 2)]),
     Parameters(InvalidRelation, Plain)}

InitMisconfigured ==
    /\ \E _parameters \in MisconfiguredParameters : Constructed(_parameters)
    /\ phase = "script"
    /\ bpc = "idle"
    /\ enc = Idle
    /\ crs = Idle

SpecMisconfigured == InitMisconfigured /\ [][Next]_vars

-----------------------------------------------------------------------------
(* SpecTournament: the script calls tournament() on a new instance.        *)

InitTournament ==
    /\ \E _parameters \in TournamentParameters : Constructed(_parameters)
    /\ phase = "SAMPLING"
    /\ bpc = "reset"
    /\ enc = Idle
    /\ crs = Idle

NextTournament ==
    \/ SampleStart
    \/ BreedScoreSort(TRUE)
    \/ BreedTruncate
    \/ BreedInfuse
    \/ BreedOffspring
    \/ BreedReplace
    \/ Harvest
    \/ SteadySeed
    \/ Interrupt
    \/ Resume
    \/ Terminate

SpecTournament == InitTournament /\ [][NextTournament]_vars

-----------------------------------------------------------------------------
(* SpecTournamentLive: tournament() without Ctrl+C, the program going on   *)
(* as long as it can take a step.                                          *)

NextTournamentLive ==
    \/ SampleStart
    \/ BreedScoreSort(TRUE)
    \/ BreedTruncate
    \/ BreedInfuse
    \/ BreedOffspring
    \/ BreedReplace
    \/ Harvest
    \/ SteadySeed

SpecTournamentLive ==
    InitTournament /\ [][NextTournamentLive]_vars /\ WF_vars(NextTournamentLive)

-----------------------------------------------------------------------------
(* SpecCodec: the codec alone. Either one call of numberToString, pass by  *)
(* pass, and the count of its "1" symbols; or one individual, its genome   *)
(* from calculatePopulationGenome and the values genomeToValues reads back.*)

\* Two operations, the second with a duration per resource, and one relation.
TwoOperations(resourceCount) ==
    [resourceCount |-> resourceCount,
     operationDurations |->
        <<FixedDuration(1), PerResource([r \in 1..resourceCount |-> 2])>>,
     operationRelations |-> <<Relation(1, 0, "ES", Some(0), None, 1)>>,
     asapAlapMode |-> "normal",
     weightResourceSuccession |-> 1]

\* Line 330: numberToString( _number, _length ) is entered.
NumberToStringCalled(_number, _length) ==
    enc = [numberToStringEnter(_number, _length) EXCEPT !.string = <<>>]
          @@ [pc |-> "loop", _number |-> _number, _length |-> _length, count |-> 0]

\* Lines 335-349: one pass of the loop.
NumberToStringLoop ==
    /\ enc.pc = "loop"
    /\ numberToStringRunning(enc)
    /\ \E r \in Draw0to100 : enc' = numberToStringPass(enc, r)
    /\ UNCHANGED <<cfg, engineVars, crs>>

\* Line 350: return string.
NumberToStringReturn ==
    /\ enc.pc = "loop"
    /\ ~numberToStringRunning(enc)
    /\ enc' = [enc EXCEPT !.pc = "returned"]
    /\ UNCHANGED <<cfg, engineVars, crs>>

\* Line 460: the decoder, count( "1" ), on the returned string.
CountOnes ==
    /\ enc.pc = "returned"
    /\ enc' = [enc EXCEPT !.pc = "counted", !.count = Count1(enc.string)]
    /\ UNCHANGED <<cfg, engineVars, crs>>

\* Lines 319-327 on a population of one individual.
GenomeEncode ==
    /\ enc.pc = "encode"
    /\ heap' \in calculatePopulationGenome(cfg, population, heap)
    /\ enc' = [enc EXCEPT !.pc = "decode"]
    /\ UNCHANGED <<cfg, populationSize, population, history, averageScoreSample,
                   averageScore, tournamentPopulation, new_population, phase, bpc,
                   g, err, crs>>

\* Lines 449-463 on that individual's genome.
GenomeDecode ==
    /\ enc.pc = "decode"
    /\ enc' = [enc EXCEPT !.pc = "decoded",
                          !.values = genomeToValues(cfg, heap[population[1]].genome)]
    /\ UNCHANGED <<cfg, engineVars, crs>>

InitCodec ==
    /\ Constructed(Parameters(OneOperation(2), Plain))
    /\ phase = "codec"
    /\ bpc = "idle"
    /\ crs = Idle
    /\ \E _length \in 1..MaxLen : \E _number \in 0.._length :
          NumberToStringCalled(_number, _length)

InitGenome ==
    /\ \E resourceCount \in 1..MaxResources :
          /\ cfg = GAS(Parameters(TwoOperations(resourceCount), Plain))
          /\ \E pair \in RandomValues(cfg) :
                heap = [EmptyHeap EXCEPT ![1] = Individual(pair[1], pair[2], <<>>)]
    /\ population = <<1>>
    /\ populationSize = 1
    /\ history = <<>>
    /\ averageScoreSample = <<>>
    /\ averageScore = None
    /\ tournamentPopulation = <<>>
    /\ new_population = <<>>
    /\ g = 0
    /\ err = ""
    /\ phase = "codec"
    /\ bpc = "idle"
    /\ crs = Idle
    /\ enc = [pc |-> "encode", values |-> <<>>]

NextCodec ==
    \/ NumberToStringLoop
    \/ NumberToStringReturn
    \/ CountOnes
    \/ GenomeEncode
    \/ GenomeDecode

SpecCodec == (InitCodec \/ InitGenome) /\ [][NextCodec]_vars

-----------------------------------------------------------------------------
(* SpecCross: one call of crossTwoGenomes, pass by pass.                   *)

CrossParameters ==
    {Parameters(OneOperation(2), [Plain EXCEPT !.crossMinStep = IntP(steps[1]),
                                               !.crossMaxStep = IntP(steps[2]),
                                               !.mutationProbability = mutation[1],
                                               !.mutationSize = mutation[2]]) :
        steps \in {<<1, 1>>, <<1, 2>>, <<0, 2>>, <<2, 3>>},
        mutation \in {<<<<0, 1>>, IntP(1)>>, <<<<1, 2>>, IntP(2)>>,
                      <<<<1, 1>>, FloatP(1, 2)>>}}

Genomes(n) == [1..n -> {"0", "1"}]

\* Lines 413-415: crossTwoGenomes( _genome1, _genome2 ) is entered.
CrossCalled(_genome1, _genome2) ==
    crs = crossEnter @@ [_genome1 |-> _genome1, _genome2 |-> _genome2,
                         mutations |-> 0, mutated |-> FALSE, m |-> 0,
                         crossed |-> <<>>]

\* Lines 417-429: one pass of the loop.
CrossLoop ==
    /\ crs.pc = "cross"
    /\ \E step \in cfg.crossMinStep..cfg.crossMaxStep : \E coin \in Draw0to99 :
          crs' = crossPass(crs, crs._genome1, crs._genome2, step, coin)
    /\ UNCHANGED <<cfg, engineVars, enc>>

\* Lines 431-438: is the result mutated, and how many times?
CrossMutationDraw ==
    /\ crs.pc = "mutate"
    /\ \E d \in Draw1to10000 :
          crs' = IF MutationTriggered(cfg, d)
                 THEN [crs EXCEPT !.pc = "mutating", !.mutated = TRUE,
                                  !.crossed = crs.result_genome,
                                  !.m = number_of_mutations(
                                            cfg, crs.result_genome),
                                  !.mutations = number_of_mutations(
                                                    cfg, crs.result_genome)]
                 ELSE [crs EXCEPT !.pc = "returned"]
    /\ UNCHANGED <<cfg, engineVars, enc>>

\* Lines 440-442: one pass of the mutation loop.
CrossMutate ==
    /\ crs.pc = "mutating"
    /\ crs.mutations > 0
    /\ \E p \in 0..(Len(crs.result_genome) - 1) : \E coin \in Draw0to99 :
          crs' = [crs EXCEPT !.result_genome = MutateAt(@, p, coin),
                             !.mutations = @ - 1]
    /\ UNCHANGED <<cfg, engineVars, enc>>

\* Lines 444-446: return result_genome.
CrossReturn ==
    /\ crs.pc = "mutating"
    /\ crs.mutations <= 0
    /\ crs' = [crs EXCEPT !.pc = "returned"]
    /\ UNCHANGED <<cfg, engineVars, enc>>

InitCross ==
    /\ \E _parameters \in CrossParameters : Constructed(_parameters)
    /\ phase = "cross"
    /\ bpc = "idle"
    /\ enc = Idle
    /\ \E n \in 1..MaxGenome : \E _genome1 \in Genomes(n), _genome2 \in Genomes(n) :
          CrossCalled(_genome1, _genome2)

NextCross ==
    \/ CrossLoop
    \/ CrossMutationDraw
    \/ CrossMutate
    \/ CrossReturn

SpecCross == InitCross /\ [][NextCross]_vars

-----------------------------------------------------------------------------
(* SpecCrossLive: SpecCross with steps that can be 0 all the time, and the *)
(* call going on as long as it can take a step.                            *)

\* crossMinStep = crossMaxStep = 0, as integers and as shares of the genome.
ZeroStepParameters ==
    {Parameters(OneOperation(2), [Plain EXCEPT !.crossMinStep = IntP(0),
                                               !.crossMaxStep = IntP(0)]),
     Parameters(OneOperation(2), [Plain EXCEPT !.crossMinStep = FloatP(0, 1),
                                               !.crossMaxStep = FloatP(1, 10)])}

InitCrossLive ==
    /\ \E _parameters \in CrossParameters \cup ZeroStepParameters :
          Constructed(_parameters)
    /\ phase = "cross"
    /\ bpc = "idle"
    /\ enc = Idle
    /\ \E n \in 1..MaxGenome : \E _genome1 \in Genomes(n), _genome2 \in Genomes(n) :
          CrossCalled(_genome1, _genome2)

SpecCrossLive == InitCrossLive /\ [][NextCross]_vars /\ WF_vars(NextCross)

-----------------------------------------------------------------------------
(* SpecHistory: the script of Spec with the history ledger switched on and *)
(* the offspring loop of breedPopulation taken one candidate at a time.    *)

\* The history loop is tried at most this often in the configurations explored.
MaxRetry == 2

HistoryParameters ==
    {Parameters(OneOperation(1), [Plain EXCEPT !.historyKeep = TRUE,
                                               !.historyRetryCount = k,
                                               !.survivalRate = rate,
                                               !.averageScoreSampleSize = 1]) :
        k \in 0..MaxRetry, rate \in {<<1, 2>>, <<1, 1>>}}

\* A faulty loop header: range( self.historyRetryCount + 1 ).
HistoryTryAgainOnceMore(c, i) == i <= c.historyRetryCount

\* Line 394: for i in range( self.historyRetryCount ) has a pass i.
HistoryTryAgain(c, i) == i < c.historyRetryCount

\* Lines 384-391: the first candidate of one offspring.
OffspringDraw ==
    /\ bpc = "offspring"
    /\ phase = "script"
    /\ crs.pc \in {"idle", "appended"}
    /\ Len(new_population) < OffspringWanted(populationSize, population)
    /\ IF population = <<>> \/ EmptyStepRange(cfg)
       THEN Raise("ValueError", population, heap) /\ crs' = crs
       ELSE /\ \E new_genome \in PoolChildren(cfg, population, heap) :
                  crs' = [pc |-> IF cfg.historyKeep THEN "try" ELSE "append",
                          i |-> 0, candidates |-> 1, collisions |-> 0,
                          new_genome |-> new_genome]
            /\ UNCHANGED <<cfg, engineVars, enc>>

\* A faulty pass of the history loop: the candidate is recorded without a
\* look at the history.
OffspringTryRecordAlways ==
    /\ bpc = "offspring"
    /\ phase = "script"
    /\ crs.pc = "try"
    /\ IF ~HistoryTryAgain(cfg, crs.i)
       THEN crs' = [crs EXCEPT !.pc = "append"] /\ history' = history
       ELSE /\ history' = Append(history, genomeToValues(cfg, crs.new_genome))
            /\ crs' = [crs EXCEPT !.pc = "append"]
    /\ UNCHANGED <<cfg, populationSize, population, heap, averageScoreSample,
                   averageScore, tournamentPopulation, new_population, phase, bpc,
                   g, err, enc>>

\* Lines 394-401: one pass of the history loop.
OffspringTry ==
    /\ bpc = "offspring"
    /\ phase = "script"
    /\ crs.pc = "try"
    /\ IF ~HistoryTryAgain(cfg, crs.i)
       THEN crs' = [crs EXCEPT !.pc = "append"] /\ history' = history
       ELSE IF genomeToValues(cfg, crs.new_genome) \notin Range(history)
       THEN /\ history' = Append(history, genomeToValues(cfg, crs.new_genome))
            /\ crs' = [crs EXCEPT !.pc = "append"]
       ELSE /\ history' = history
            /\ \E again \in PoolChildren(cfg, population, heap) :
                  crs' = [crs EXCEPT !.new_genome = again,
                                     !.i = @ + 1,
                                     !.candidates = @ + 1,
                                     !.collisions = @ + 1]
    /\ UNCHANGED <<cfg, populationSize, population, heap, averageScoreSample,
                   averageScore, tournamentPopulation, new_population, phase, bpc,
                   g, err, enc>>

\* Line 404: the candidate becomes a member of new_population.
OffspringAppend ==
    /\ bpc = "offspring"
    /\ phase = "script"
    /\ crs.pc = "append"
    /\ \E o \in {Alloc(heap)} :
       \E values \in {genomeToValues(cfg, crs.new_genome)} :
          /\ heap' = [heap EXCEPT
                        ![o] = Individual(values[1], values[2], crs.new_genome)]
          /\ new_population' = Append(new_population, o)
    /\ crs' = [crs EXCEPT !.pc = "appended"]
    /\ UNCHANGED <<cfg, populationSize, population, history, averageScoreSample,
                   averageScore, tournamentPopulation, phase, bpc, g, err, enc>>

InitHistory ==
    /\ \E _parameters \in HistoryParameters : Constructed(_parameters)
    /\ phase = "script"
    /\ bpc = "idle"
    /\ enc = Idle
    /\ crs = Idle

NextHistory ==
    \/ Reset
    \/ \E _n \in 1..MaxPopLen : AddRandom(_n)
    \/ \E do_print \in BOOLEAN : BreedScoreSort(do_print)
    \/ BreedTruncate
    \/ BreedInfuse
    \/ OffspringDraw
    \/ OffspringTry
    \/ OffspringAppend
    \/ BreedReplace

SpecHistory == InitHistory /\ [][NextHistory]_vars

-----------------------------------------------------------------------------
(* SpecScore: scorePopulation on a population of one individual, for       *)
(* three operations on two resources and two relations.                    *)

\* The individuals scored start their operations at 0..MaxStart.
MaxStart == 3

\* The relation of operation 1 to operation 0 takes every type and every
\* combination of bounds; the relation of operation 2 to operation 1 is fixed.
ThreeOperations(type, min, max) ==
    [resourceCount |-> 2,
     operationDurations |->
        <<PerResource(<<1, 2>>), FixedDuration(2), PerResource(<<2, 1>>)>>,
     operationRelations |-> <<Relation(1, 0, type, min, max, 2),
                              Relation(2, 1, "EE", Some(1), Some(2), 1)>>,
     asapAlapMode |-> "normal",
     weightResourceSuccession |-> 3]

ScoreParameters ==
    {Parameters([ThreeOperations(type, bounds[1], bounds[2])
                    EXCEPT !.asapAlapMode = mode], Plain) :
        type \in ValidTypes,
        bounds \in {<<Some(0), Some(1)>>, <<Some(1), None>>,
                    <<None, Some(1)>>, <<None, None>>},
        mode \in {"normal", "asap", "alap"}}

\* Lines 209-316 on the one member of the population.
ScoreCall ==
    /\ phase = "score"
    /\ enc.pc = "unscored"
    /\ \E scored \in {scorePopulation(cfg, population, heap)} :
          /\ heap' = scored.heap
          /\ enc' = [pc |-> "scored", status |-> scored.status]
    /\ UNCHANGED <<cfg, populationSize, population, history, averageScoreSample,
                   averageScore, tournamentPopulation, new_population, phase, bpc,
                   g, err, crs>>

InitScore ==
    /\ \E _parameters \in ScoreParameters : cfg = GAS(_parameters)
    /\ \E pair \in RandomValues(cfg) :
          /\ \A k \in 1..cfg.operationCount : pair[1][k] <= MaxStart
          /\ heap = [EmptyHeap EXCEPT ![1] = Individual(pair[1], pair[2], <<>>)]
    /\ population = <<1>>
    /\ populationSize = 1
    /\ history = <<>>
    /\ averageScoreSample = <<>>
    /\ averageScore = None
    /\ tournamentPopulation = <<>>
    /\ new_population = <<>>
    /\ g = 0
    /\ err = ""
    /\ phase = "score"
    /\ bpc = "idle"
    /\ crs = Idle
    /\ enc = [pc |-> "unscored", status |-> ""]

NextScore == ScoreCall

SpecScore == InitScore /\ [][NextScore]_vars

-----------------------------------------------------------------------------
(* SpecConstruct: one call of GAS( _parameters ). The relation dicts are    *)
(* objects: enc.dicts holds their contents, enc.input the ids the caller's  *)
(* map refers to and enc.own the ids self.operationRelations refers to.     *)

\* The largest offset of a relation.
MaxOffset == 2

\* A faulty copy: self.operationRelations refers to the caller's dicts.
CopyByReference(dicts, ids) == [dicts |-> dicts, ids |-> ids]

\* Line 131: dict( ... ) makes a new dict with the same items.
CopyByValue(dicts, ids) ==
    [dicts |-> dicts \o [i \in 1..Len(ids) |-> dicts[ids[i]]],
     ids |-> [i \in 1..Len(ids) |-> Len(dicts) + i]]

Offsets == {None} \cup {Some(v) : v \in (-MaxOffset)..MaxOffset}

\* Two operations and one or two relations with every pair of offsets.
ConstructProblems ==
    {[resourceCount |-> 2,
      operationDurations |-> durations,
      operationRelations |-> relations,
      asapAlapMode |-> mode,
      weightResourceSuccession |-> 1] :
        durations \in {<<FixedDuration(1), PerResource(<<1, 3>>)>>,
                       <<PerResource(<<2, 1>>), FixedDuration(2)>>},
        relations \in
            {<<Relation(1, 0, "ES", min, max, 1)>> :
                 min \in Offsets, max \in Offsets}
            \cup {<<Relation(1, 0, "ES", min, max, 1),
                    Relation(0, 1, "SS", min2, max2, 2)>> :
                      min \in {None, Some(MaxOffset)},
                      max \in {None, Some(-MaxOffset)},
                      min2 \in {None, Some(1)}, max2 \in {None, Some(0)}},
        mode \in {"normal", "asap", "alap"}}

ConstructParameters == {Parameters(problem, Plain) : problem \in ConstructProblems}

\* Lines 128-147: the relations are copied and the mode is evaluated on
\* self.operationRelations.
ConstructRelations ==
    /\ phase = "construct"
    /\ enc.pc = "called"
    /\ \E copy \in {CopyByValue(enc.dicts, enc.input)} :
          enc' = [enc EXCEPT
                    !.dicts = [o \in 1..Len(copy.dicts) |->
                                  IF o \in Range(copy.ids)
                                  THEN ResolveMode(enc.parameters.asapAlapMode,
                                                   copy.dicts[o])
                                  ELSE copy.dicts[o]],
                    !.own = copy.ids,
                    !.pc = "resolved"]
    /\ UNCHANGED <<cfg, engineVars, crs>>

\* Lines 149-172: operationMaxTime and the steps; __init__ returns.
ConstructReturn ==
    /\ phase = "construct"
    /\ enc.pc = "resolved"
    /\ cfg' = GAS(enc.parameters)
    /\ enc' = [enc EXCEPT !.pc = "constructed"]
    /\ UNCHANGED <<engineVars, crs>>

InitConstruct ==
    /\ \E _parameters \in ConstructParameters :
          enc = [pc |-> "called",
                 parameters |-> _parameters,
                 given |-> _parameters.operationRelations,
                 dicts |-> _parameters.operationRelations,
                 input |-> [i \in 1..Len(_parameters.operationRelations) |-> i],
                 own |-> <<>>]
    /\ cfg = None
    /\ populationSize = 0
    /\ population = <<>>
    /\ heap = EmptyHeap
    /\ history = <<>>
    /\ averageScoreSample = <<>>
    /\ averageScore = None
    /\ tournamentPopulation = <<>>
    /\ new_population = <<>>
    /\ phase = "construct"
    /\ bpc = "idle"
    /\ g = 0
    /\ err = ""
    /\ crs = Idle

NextConstruct == ConstructRelations \/ ConstructReturn

SpecConstruct == InitConstruct /\ [][NextConstruct]_vars

-----------------------------------------------------------------------------
(* SpecPool: the script of lines 985-988: a population of populationSize   *)
(* random members, then breedPopulation again and again.                   *)

\* survivalRate 0, 1/2 and 1, populationSize 1 and 2, with and without
\* infusion.
PoolParameters ==
    {Parameters(OneOperation(2), [Plain EXCEPT !.populationSize = size,
                                               !.survivalRate = rate,
                                               !.infuseRandomToPopulation = infuse]) :
        size \in {1, 2},
        rate \in {<<0, 1>>, <<1, 2>>, <<1, 1>>},
        infuse \in {0, 1}}

InitPool ==
    /\ \E _parameters \in PoolParameters :
          /\ cfg = GAS(_parameters)
          /\ populationSize = _parameters.populationSize
    /\ \E t \in addRandomToPopulation(cfg, [population |-> <<>>,
                                            heap |-> EmptyHeap,
                                            history |-> <<>>], populationSize) :
          /\ population = t.population
          /\ heap = t.heap
          /\ history = t.history
    /\ averageScoreSample = <<>>
    /\ averageScore = None
    /\ tournamentPopulation = <<>>
    /\ new_population = <<>>
    /\ g = 0
    /\ err = ""
    /\ phase = "script"
    /\ bpc = "idle"
    /\ enc = Idle
    /\ crs = Idle

NextPool ==
    \/ BreedScoreSort(TRUE)
    \/ BreedTruncate
    \/ BreedInfuse
    \/ BreedOffspring
    \/ BreedReplace

SpecPool == InitPool /\ [][NextPool]_vars

-----------------------------------------------------------------------------
(* The properties.                                                         *)

\* C1: for a length L >= 1 and a value v in 0..L, whatever the draws, the
\* string numberToString(v, L) returns has length L, exactly v "1" symbols and
\* L - v "0" symbols, and counting its "1" symbols gives v back.
C1_ScalarRoundTrip ==
    (phase = "codec" /\ enc.pc \in {"returned", "counted"}) =>
        /\ Len(enc.string) = enc._length
        /\ Count1(enc.string) = enc._number
        /\ Cardinality({i \in 1..Len(enc.string) : enc.string[i] = "0"})
              = enc._length - enc._number
        /\ enc.pc = "counted" => enc.count = enc._number

C1_Witness ==
    /\ phase = "codec"
    /\ enc.pc = "counted"
    /\ enc._length = 4
    /\ enc._number = 2
    /\ enc.string = <<"0", "1", "1", "0">>

\* C2: the genome calculatePopulationGenome gives an individual with values
\* in range has length operationCount * (operationMaxTime +
\* max(resourceCount - 1, 1)), and genomeToValues reads the individual's start
\* times and resource ids back from it, with one resource as with several.
C2_GenomeRoundTrip ==
    (phase = "codec" /\ enc.pc \in {"decode", "decoded"}) =>
        /\ Len(heap[population[1]].genome)
              = cfg.operationCount
                * (cfg.operationMaxTime + Max(cfg.resourceCount - 1, 1))
        /\ enc.pc = "decoded" =>
              enc.values = <<heap[population[1]].start_times,
                             heap[population[1]].resources>>

C2_Witness ==
    /\ phase = "codec"
    /\ enc.pc = "decoded"
    /\ cfg.resourceCount = 1
    /\ cfg.operationCount = 2
    /\ enc.values = <<<<1, 3>>, <<0, 0>>>>
    /\ heap[population[1]].genome[3] = "1"

\* C3: crossTwoGenomes on two genomes of the same length n returns a genome
\* of length n, whatever the steps, the parents picked and the mutation.
C3_CrossLength ==
    (phase = "cross") =>
        /\ Len(crs._genome2) = Len(crs._genome1)
        /\ Len(crs.result_genome) <= Len(crs._genome1)
        /\ crs.pc \in {"mutate", "mutating", "returned"} =>
              Len(crs.result_genome) = Len(crs._genome1)

C3_Witness ==
    /\ phase = "cross"
    /\ crs.pc = "returned"
    /\ crs.mutated
    /\ Len(crs.result_genome) = 3
    /\ crs.result_genome # crs._genome1
    /\ crs.result_genome # crs._genome2
    /\ cfg.crossMinStep = 0

\* C4: right after the truncation step of breedPopulation the population is
\* exactly the first round(survivalRate * populationSize) members of the
\* population sorted by descending score.
C4_TruncationKeepsSurvivors ==
    [][(phase = "script" /\ bpc = "truncate" /\ bpc' = "infuse") =>
          /\ Len(population') = Survivors(cfg, populationSize)
          /\ \A i \in 1..Len(population') :
                i <= Len(population) /\ population'[i] = population[i]
          /\ \A i \in 1..(Len(population) - 1) :
                heap[population[i]].score >= heap[population[i + 1]].score]_vars

\* C5: during tournament() the tournament population never has more than
\* tournamentPopulationSize members and never gets shorter.
C5_TournamentBounded ==
    ([][Len(tournamentPopulation') >= Len(tournamentPopulation)]_vars)
    /\ [](Len(tournamentPopulation) <= cfg.tournamentPopulationSize)

C5_Witness ==
    /\ phase = "STEADY"
    /\ bpc = "offspring"
    /\ cfg.tournamentSample = 2
    /\ cfg.tournamentPopulationSize = 1
    /\ Len(tournamentPopulation) = cfg.tournamentPopulationSize

\* C6: the members a sampling run copies into the tournament population are
\* the highest-scoring members of the run's final population, by the score
\* scorePopulation gives them.
C6_HarvestTakesBest ==
    [][(phase = "ACCUMULATING" /\ phase' \in {"SAMPLING", "STEADY"}) =>
          \A i \in 1..(Len(tournamentPopulation') - Len(tournamentPopulation)) :
          \A j \in (Len(tournamentPopulation') - Len(tournamentPopulation) + 1)
                   ..Len(population) :
                ScoreIndividual(cfg, heap[population[j]]).p.score
                   <= ScoreIndividual(cfg, heap[population[i]]).p.score]_vars

\* C7: once the steady phase has started the tournament population keeps its
\* members and their contents, through generations and through resumes, and
\* the population shares no individual with it.
C7_TournamentNotConsumed ==
    ([][(phase \in {"STEADY", "PAUSED", "TERMINATED"}) =>
           /\ tournamentPopulation' = tournamentPopulation
           /\ \A o \in Range(tournamentPopulation) : heap[o] = heap'[o]]_vars)
    /\ [](phase \in {"STEADY", "PAUSED", "TERMINATED"} =>
             (Range(population) \cup Range(new_population))
                \cap Range(tournamentPopulation) = {})

C7_Witness ==
    /\ phase = "STEADY"
    /\ bpc = "truncate"
    /\ Len(tournamentPopulation) = 2
    /\ \E o \in Range(population) : heap[o].sub # None /\ heap[o].score # 0
    /\ \A o \in Range(tournamentPopulation) : heap[o].score = 0

\* C8, as the specification states it: the controller leaves the steady phase
\* for the pause only between two breedPopulation calls, never inside one.
C8_PauseAtBoundary ==
    [][(phase' = "PAUSED" /\ phase # "PAUSED") =>
          (phase = "STEADY" /\ bpc = "idle")]_vars

\* C8: the pause is entered only from the steady phase, at whatever point of
\* it the interrupt arrives, and a resume starts again with the copying of the
\* tournament population.
C8_PauseFromSteady ==
    [][((phase' = "PAUSED" /\ phase # "PAUSED") => phase = "STEADY")
       /\ ((phase = "PAUSED" /\ phase' = "STEADY") => bpc' = "seed")]_vars

C8_Witness ==
    /\ phase = "PAUSED"
    /\ bpc = "offspring"
    /\ new_population = <<>>
    /\ \E o \in Range(population) : heap[o].genome # <<>>

\* C9: between operations every member of the population has one start time
\* in 0..operationMaxTime and one resource id in 0..resourceCount - 1 for
\* every operation.
C9_ValuesInRange ==
    (phase = "script" /\ bpc = "idle") =>
        \A o \in Range(population) :
            /\ Len(heap[o].start_times) = cfg.operationCount
            /\ Len(heap[o].resources) = cfg.operationCount
            /\ \A k \in 1..cfg.operationCount :
                  /\ heap[o].start_times[k] \in 0..cfg.operationMaxTime
                  /\ heap[o].resources[k] \in 0..(cfg.resourceCount - 1)

\* C10: a breedPopulation call that completes leaves a population of exactly
\* populationSize new dicts, none of them a member of the population before,
\* each carrying a genome bred from the parent pool, the values of that genome
\* and the score 0.
C10_GenerationalReplacement ==
    [][(phase = "script" /\ bpc = "offspring" /\ bpc' = "idle") =>
          /\ Len(population') = populationSize
          /\ Cardinality(Range(population')) = populationSize
          /\ Range(population') \cap Range(population) = {}
          /\ \E children \in {PoolChildren(cfg, population, heap)} :
                \A o \in Range(population') :
                   /\ heap[o] = heap'[o]
                   /\ heap'[o].genome \in children
                   /\ <<heap'[o].start_times, heap'[o].resources>>
                         = genomeToValues(cfg, heap'[o].genome)
                   /\ heap'[o].score = 0]_vars

C10_Witness ==
    /\ phase = "script"
    /\ bpc = "idle"
    /\ populationSize = 3
    /\ Len(population) = populationSize
    /\ \A o \in Range(population) :
          heap[o].genome # <<>> /\ heap[o].score = 0 /\ heap[o].sub = None

\* C11: with historyKeep and historyRetryCount = k, one offspring takes at
\* most k + 1 candidates, one more than the collisions met; when the first k
\* candidates all collide, the candidate after them becomes the member of the
\* new population without a look at the ledger, and nothing is raised.
C11_RetryBound ==
    [][(phase = "script" /\ bpc = "offspring" /\ crs.pc # "idle") =>
          /\ crs.candidates <= cfg.historyRetryCount + 1
          /\ crs.candidates = crs.collisions + 1
          /\ (crs.pc = "append" /\ crs.collisions = cfg.historyRetryCount) =>
                /\ crs'.pc = "appended"
                /\ Len(new_population') = Len(new_population) + 1
                /\ heap'[new_population'[Len(new_population')]].genome
                      = crs.new_genome
                /\ history' = history
                /\ phase' = "script"
                /\ err' = ""]_vars

C11_Witness ==
    /\ phase = "script"
    /\ bpc = "offspring"
    /\ crs.pc = "appended"
    /\ cfg.historyRetryCount = 2
    /\ crs.candidates = 3
    /\ crs.collisions = 2
    /\ genomeToValues(cfg, crs.new_genome) \in Range(history)
    /\ heap[new_population[Len(new_population)]].genome = crs.new_genome

\* C12: in normal mode an individual whose relations all keep their lower
\* and upper bounds (every gap >= 0) and in which no operation starts before
\* the operation just before it on the same resource has ended is scored
\* score_operationRelations = 0, score_resourceSuccession = 0 and score =
\* minus the sum of the durations on the assigned resources.
C12_PerfectSchedule ==
    (phase = "score" /\ enc.pc = "scored" /\ cfg.asapAlapMode = "normal") =>
        LET p == heap[population[1]]
            ops == 0..(cfg.operationCount - 1)
            dur(o) == LET d == cfg.operationDurations[o + 1]
                      IN  IF d.kind = "int" THEN d.v[1]
                          ELSE d.v[p.resources[o + 1] + 1]
            start(o) == p.start_times[o + 1]
            end(o) == start(o) + dur(o)
            A(r) == IF r.type \in {"SS", "ES"} THEN start(r.op2) ELSE end(r.op2)
            B(r) == IF r.type \in {"SS", "SE"} THEN start(r.op1) ELSE end(r.op1)
            kept(r) == /\ r.min # None => A(r) - (B(r) + r.min[1]) >= 0
                       /\ r.max # None => (B(r) + r.max[1]) - A(r) >= 0
            earlier(a, b) == \/ start(a) < start(b)
                             \/ start(a) = start(b) /\ a < b
            next(a, b) == /\ a # b
                          /\ p.resources[a + 1] = p.resources[b + 1]
                          /\ earlier(a, b)
                          /\ ~\E x \in ops \ {a, b} :
                                 /\ p.resources[x + 1] = p.resources[a + 1]
                                 /\ earlier(a, x)
                                 /\ earlier(x, b)
            perfect == /\ \A i \in 1..Len(cfg.operationRelations) :
                             kept(cfg.operationRelations[i])
                       /\ \A a \in ops, b \in ops :
                             next(a, b) => start(b) >= end(a)
        IN  perfect =>
               /\ enc.status = "ok"
               /\ p.sub # None
               /\ p.sub[1] = 0
               /\ p.sub[2] = 0
               /\ p.score = -SumSeq([k \in 1..cfg.operationCount |-> dur(k - 1)])

C12_Witness ==
    /\ phase = "score"
    /\ enc.pc = "scored"
    /\ cfg.asapAlapMode = "normal"
    /\ cfg.operationRelations[1].type = "ES"
    /\ cfg.operationRelations[1].min = Some(0)
    /\ cfg.operationRelations[1].max = Some(1)
    /\ heap[population[1]].start_times = <<0, 1, 3>>
    /\ heap[population[1]].resources = <<0, 0, 1>>
    /\ heap[population[1]].sub = <<0, 0, -4>>
    /\ heap[population[1]].score = -4

\* C13: when the mutation is triggered with mutationSize resolved to m, the
\* genome returned differs from the result of the crossover in at most m
\* positions and has its length; a genome equal to the result of the
\* crossover is one of the genomes returned.
C13_MutationAssigns ==
    (phase = "cross" /\ crs.mutated) =>
        /\ Len(crs.result_genome) = Len(crs.crossed)
        /\ Cardinality({i \in 1..Len(crs.crossed) :
                           crs.result_genome[i] # crs.crossed[i]})
              <= crs.m - crs.mutations
        /\ crs.mutations <= crs.m

C13_Witness ==
    /\ phase = "cross"
    /\ crs.pc = "returned"
    /\ crs.mutated
    /\ crs.m = 2
    /\ crs.mutations = 0
    /\ Len(crs.crossed) = 3
    /\ crs.result_genome = crs.crossed

\* C14: reset() empties population, history and averageScoreSample and sets
\* averageScore to None; the configuration, populationSize and the
\* tournament population stay as they are.
C14_ResetFrame ==
    [][Reset =>
          /\ population' = <<>>
          /\ history' = <<>>
          /\ averageScoreSample' = <<>>
          /\ averageScore' = None
          /\ cfg' = cfg
          /\ populationSize' = populationSize
          /\ tournamentPopulation' = tournamentPopulation]_vars

C14_Witness ==
    /\ phase = "script"
    /\ bpc = "idle"
    /\ crs.pc = "appended"
    /\ population = <<>>
    /\ history = <<>>
    /\ averageScoreSample = <<>>
    /\ averageScore = None

\* C18: score_operationRelations is the sum over the relations of: when min
\* is set, min(0, A - (B + min)) * weight, otherwise -start(opTo) in asap
\* mode; plus, when max is set, min(0, (B + max) - A) * weight, otherwise
\* +start(opTo) in alap mode; A is the start of opTo for SS and ES and its
\* end for SE and EE, B is the start of opFrom for SS and SE and its end for
\* ES and EE.
C18_RelationReference ==
    (phase = "score" /\ enc.pc = "scored") =>
        LET p == heap[population[1]]
            dur(o) == LET d == cfg.operationDurations[o + 1]
                      IN  IF d.kind = "int" THEN d.v[1]
                          ELSE d.v[p.resources[o + 1] + 1]
            start(o) == p.start_times[o + 1]
            end(o) == start(o) + dur(o)
            neg(x) == IF x < 0 THEN x ELSE 0
            A(r) == IF r.type \in {"SS", "ES"} THEN start(r.op2) ELSE end(r.op2)
            B(r) == IF r.type \in {"SS", "SE"} THEN start(r.op1) ELSE end(r.op1)
            term(r) ==
                (IF r.min # None
                 THEN neg(A(r) - (B(r) + r.min[1])) * r.weight
                 ELSE IF cfg.asapAlapMode = "asap" THEN -start(r.op2) ELSE 0)
                + (IF r.max # None
                   THEN neg((B(r) + r.max[1]) - A(r)) * r.weight
                   ELSE IF cfg.asapAlapMode = "alap" THEN start(r.op2) ELSE 0)
        IN  /\ enc.status = "ok"
            /\ p.sub # None
            /\ p.sub[1] = SumSeq([i \in 1..Len(cfg.operationRelations) |->
                                     term(cfg.operationRelations[i])])

C18_Witness ==
    /\ phase = "score"
    /\ enc.pc = "scored"
    /\ cfg.asapAlapMode = "asap"
    /\ cfg.operationRelations[1].type = "SE"
    /\ cfg.operationRelations[1].min = None
    /\ cfg.operationRelations[1].max = Some(1)
    /\ heap[population[1]].start_times = <<0, 2, 3>>
    /\ heap[population[1]].resources = <<1, 0, 0>>
    /\ heap[population[1]].sub[1] = -8

\* C19: score_resourceSuccession is -weightResourceSuccession times the
\* number of pairs of operations that are neighbours in the order by
\* (resource id, start time), share a resource, and of which the second
\* starts strictly before the first's start plus the first's duration,
\* whatever the size of the overlap.
C19_SuccessionCount ==
    (phase = "score" /\ enc.pc = "scored") =>
        LET p == heap[population[1]]
            ops == 0..(cfg.operationCount - 1)
            dur(o) == LET d == cfg.operationDurations[o + 1]
                      IN  IF d.kind = "int" THEN d.v[1]
                          ELSE d.v[p.resources[o + 1] + 1]
            start(o) == p.start_times[o + 1]
            earlier(a, b) == \/ start(a) < start(b)
                             \/ start(a) = start(b) /\ a < b
            next(a, b) == /\ a # b
                          /\ p.resources[a + 1] = p.resources[b + 1]
                          /\ earlier(a, b)
                          /\ ~\E x \in ops \ {a, b} :
                                 /\ p.resources[x + 1] = p.resources[a + 1]
                                 /\ earlier(a, x)
                                 /\ earlier(x, b)
            overlapping == {ab \in ops \X ops :
                               /\ next(ab[1], ab[2])
                               /\ start(ab[2]) < start(ab[1]) + dur(ab[1])}
        IN  /\ p.sub # None
            /\ p.sub[2] = -cfg.weightResourceSuccession * Cardinality(overlapping)

C19_Witness ==
    /\ phase = "score"
    /\ enc.pc = "scored"
    /\ heap[population[1]].resources = <<0, 0, 0>>
    /\ heap[population[1]].start_times = <<1, 0, 1>>
    /\ cfg.weightResourceSuccession = 3
    /\ heap[population[1]].sub[2] = -6

\* C20: after scorePopulation has returned True, score is the sum of the
\* three components and score_fastestResource is minus the sum over the
\* operations of the duration on the assigned resource.
C20_Decomposition ==
    (phase = "score" /\ enc.pc = "scored" /\ enc.status = "ok") =>
        LET p == heap[population[1]]
            dur(o) == LET d == cfg.operationDurations[o + 1]
                      IN  IF d.kind = "int" THEN d.v[1]
                          ELSE d.v[p.resources[o + 1] + 1]
        IN  /\ p.sub # None
            /\ p.score = p.sub[1] + p.sub[2] + p.sub[3]
            /\ p.sub[3] = -SumSeq([k \in 1..cfg.operationCount |-> dur(k - 1)])

C20_Witness ==
    /\ phase = "score"
    /\ enc.pc = "scored"
    /\ enc.status = "ok"
    /\ heap[population[1]].resources = <<1, 1, 1>>
    /\ heap[population[1]].sub[1] < 0
    /\ heap[population[1]].sub[2] = -3
    /\ heap[population[1]].sub[3] = -5
    /\ heap[population[1]].score = heap[population[1]].sub[1] - 8

C15_StepBoundsValidated ==
    (phase \in {"script", "CRASHED"} /\ bpc # "idle" /\ population # <<>>) =>
        cfg.crossMinStep <= cfg.crossMaxStep

\* C16: with a relation whose type is none of SS, SE, ES, EE, no
\* breedPopulation call gets to replace the population with a new generation.
C16_InvalidTypeAborts ==
    [][(\E i \in 1..Len(cfg.operationRelations) :
           cfg.operationRelations[i].type \notin ValidTypes) =>
          ~(bpc = "offspring" /\ bpc' = "idle" /\ population' = new_population)]_vars

\* C21: after __init__, in normal mode a relation given without bounds has
\* min = 0 and no relation has both bounds absent; in asap mode a relation
\* with a min has max = min; in alap mode a relation with a max has
\* min = max; every other bound, the types and the weights are as given, and
\* the dicts of the caller's relation map hold what they held before.
C21_ModeResolution ==
    (phase = "construct" /\ enc.pc = "constructed") =>
        LET mode == enc.parameters.asapAlapMode
            n == Len(enc.given)
        IN  /\ Len(cfg.operationRelations) = n
            /\ \A i \in 1..n :
                  LET given == enc.given[i]
                      r == cfg.operationRelations[i]
                  IN  /\ r = enc.dicts[enc.own[i]]
                      /\ enc.dicts[enc.input[i]] = given
                      /\ r.op2 = given.op2 /\ r.op1 = given.op1
                      /\ r.type = given.type /\ r.weight = given.weight
                      /\ mode = "normal" =>
                            /\ ~(r.min = None /\ r.max = None)
                            /\ r.max = given.max
                            /\ r.min = IF given.min = None /\ given.max = None
                                       THEN Some(0) ELSE given.min
                      /\ mode = "asap" =>
                            /\ r.min = given.min
                            /\ r.min # None => r.max = r.min
                            /\ r.min = None => r.max = given.max
                      /\ mode = "alap" =>
                            /\ r.max = given.max
                            /\ r.max # None => r.min = r.max
                            /\ r.max = None => r.min = given.min

C21_Witness ==
    /\ phase = "construct"
    /\ enc.pc = "constructed"
    /\ enc.parameters.asapAlapMode = "asap"
    /\ enc.given[1].min = Some(2)
    /\ enc.given[1].max = Some(-2)
    /\ cfg.operationRelations[1].max = Some(2)
    /\ enc.dicts[enc.input[1]].max = Some(-2)
    /\ enc.own[1] # enc.input[1]

\* C22: operationMaxTime is the sum over the operations of the duration (the
\* largest over the resources for a per-resource duration) plus the sum over
\* the relations of max(|min or 0|, |max or 0|), on the bounds after the mode
\* has been evaluated.
C22_Horizon ==
    (phase = "construct" /\ enc.pc = "constructed") =>
        LET worst(d) == IF d.kind = "int" THEN d.v[1]
                        ELSE CHOOSE m \in Range(d.v) : \A x \in Range(d.v) : x <= m
            size(b) == IF b = None THEN 0 ELSE IF b[1] < 0 THEN -b[1] ELSE b[1]
            offset(r) == IF size(r.min) >= size(r.max) THEN size(r.min)
                         ELSE size(r.max)
        IN  cfg.operationMaxTime =
                SumSeq([i \in 1..Len(enc.parameters.operationDurations) |->
                           worst(enc.parameters.operationDurations[i])])
                + SumSeq([i \in 1..Len(cfg.operationRelations) |->
                             offset(cfg.operationRelations[i])])

C22_Witness ==
    /\ phase = "construct"
    /\ enc.pc = "constructed"
    /\ enc.parameters.asapAlapMode = "asap"
    /\ enc.parameters.operationDurations = <<FixedDuration(1), PerResource(<<1, 3>>)>>
    /\ Len(enc.given) = 1
    /\ enc.given[1].min = Some(1)
    /\ enc.given[1].max = Some(-2)
    /\ cfg.operationMaxTime = 5

\* C23: with historyKeep, the (start_times, resources) pair of every member
\* that addRandomToPopulation or breedPopulation accepts is in the history
\* right after the acceptance.
C23_LedgerRecordsAccepted ==
    [][/\ (phase = "script" /\ bpc = "idle" /\ bpc' = "idle"
              /\ Len(population') > Len(population)) =>
             \A i \in (Len(population) + 1)..Len(population') :
                <<heap'[population'[i]].start_times,
                  heap'[population'[i]].resources>> \in Range(history')
       /\ (phase = "script" /\ bpc = "offspring" /\ crs.pc = "append"
              /\ crs'.pc = "appended") =>
             genomeToValues(cfg, crs.new_genome) \in Range(history')]_vars

\* C24: with averageScoreSampleSize = w >= 1 the window never holds more
\* than w entries, and once a breedPopulation call has returned with w
\* entries in the window averageScore is defined and is the mean of the
\* entries of the window; with w = 0 averageScore is None.
C24_RollingAverage ==
    /\ cfg.averageScoreSampleSize >= 1 =>
          /\ Len(averageScoreSample) <= cfg.averageScoreSampleSize
          /\ (bpc = "idle" /\ population # <<>>
                 /\ Len(averageScoreSample) = cfg.averageScoreSampleSize) =>
                /\ averageScore # None
                /\ averageScore[1][1] * cfg.averageScoreSampleSize
                      = SumSeq(averageScoreSample) * averageScore[1][2]
    /\ cfg.averageScoreSampleSize = 0 => averageScore = None

\* C25: every pass of the crossover loop appends a segment copied from the
\* same positions of one of the two parents, of a length in
\* crossMinStep..crossMaxStep unless it is the last one, which is the rest
\* of a parent; so without mutation every symbol of the child is the symbol
\* at the same index of parent 1 or of parent 2, and the child of two equal
\* parents is equal to them.
C25_CrossComposition ==
    /\ [][(phase = "cross" /\ crs.pc = "cross") =>
             \E parent \in {crs._genome1, crs._genome2} :
             \E length \in 0..Len(parent) :
                /\ Len(crs.result_genome) + length <= Len(parent)
                /\ crs'.result_genome
                      = crs.result_genome
                        \o [i \in 1..length |-> parent[Len(crs.result_genome) + i]]
                /\ crs'.pc = "cross" =>
                      length \in cfg.crossMinStep..cfg.crossMaxStep
                /\ crs'.pc # "cross" =>
                      Len(crs'.result_genome) = Len(parent)]_vars
    /\ []((phase = "cross"
             /\ (crs.pc = "mutate" \/ (crs.pc = "returned" /\ ~crs.mutated))) =>
            /\ Len(crs.result_genome) = Len(crs._genome1)
            /\ \A i \in 1..Len(crs.result_genome) :
                  crs.result_genome[i] \in {crs._genome1[i], crs._genome2[i]}
            /\ crs._genome1 = crs._genome2 => crs.result_genome = crs._genome1)

C25_Witness ==
    /\ phase = "cross"
    /\ crs.pc = "returned"
    /\ ~crs.mutated
    /\ cfg.crossMinStep = 1
    /\ crs._genome1 = <<"0", "0", "0">>
    /\ crs._genome2 = <<"1", "1", "1">>
    /\ crs.result_genome = <<"0", "1", "0">>

\* C26: when breedPopulation picks parents, the parent pool holds
\* round(survivalRate * populationSize) + infuseRandomToPopulation members,
\* at least one, and no draw of a parent index fails.
C26_ParentPoolNotEmpty ==
    /\ (phase = "script" /\ bpc = "offspring") =>
          /\ Len(population) = PyRound(cfg.survivalRate[1] * populationSize,
                                       cfg.survivalRate[2])
                               + cfg.infuseRandomToPopulation
          /\ Len(population) >= 1
    /\ err # "ValueError"

\* C27: with 0 <= crossMinStep <= crossMaxStep the segment-copy loop of
\* crossTwoGenomes is left after finitely many passes.
C27_CrossTerminates == (crs.pc = "cross") ~> (crs.pc # "cross")

\* C28: with durations >= 1 and weightResourceSuccession >= 1,
\* score_resourceSuccession is 0 exactly when no two different operations on
\* one resource have intersecting intervals [start, start + duration),
\* neighbours in the (resource, start) order or not.
C28_ZeroPenaltyNoOverlap ==
    (phase = "score" /\ enc.pc = "scored") =>
        LET p == heap[population[1]]
            ops == 0..(cfg.operationCount - 1)
            dur(o) == LET d == cfg.operationDurations[o + 1]
                      IN  IF d.kind = "int" THEN d.v[1]
                          ELSE d.v[p.resources[o + 1] + 1]
            start(o) == p.start_times[o + 1]
            intersect(a, b) == \E t \in 0..(MaxStart + cfg.operationMaxTime) :
                                  /\ start(a) <= t /\ t < start(a) + dur(a)
                                  /\ start(b) <= t /\ t < start(b) + dur(b)
        IN  /\ \A o \in ops : dur(o) >= 1
            /\ cfg.weightResourceSuccession >= 1
            /\ p.sub # None
            /\ p.sub[2] = 0 <=>
                  ~\E a \in ops, b \in ops :
                       /\ a # b
                       /\ p.resources[a + 1] = p.resources[b + 1]
                       /\ intersect(a, b)

C28_Witness ==
    /\ phase = "score"
    /\ enc.pc = "scored"
    /\ heap[population[1]].resources = <<0, 0, 0>>
    /\ heap[population[1]].start_times = <<0, 1, 3>>
    /\ heap[population[1]].sub[2] = 0

\* C29: the history never holds two equal (start_times, resources) entries,
\* and a step either empties it (reset) or keeps every entry in its place
\* and only adds entries at the end.
C29_LedgerGrows ==
    /\ [](\A i \in 1..Len(history), j \in 1..Len(history) :
             history[i] = history[j] => i = j)
    /\ [][\/ Reset /\ history' = <<>>
          \/ /\ Len(history') >= Len(history)
             /\ \A i \in 1..Len(history) : history'[i] = history[i]]_vars

C29_Witness ==
    /\ phase = "script"
    /\ bpc = "offspring"
    /\ crs.pc = "appended"
    /\ cfg.historyRetryCount = 2
    /\ Len(history) = 2
    /\ history[1] # history[2]
    /\ genomeToValues(cfg, crs.new_genome) = history[2]
    /\ crs.collisions = 1

\* C30: without an interrupt, tournament() started with an empty tournament
\* population reaches the steady phase, whatever populationSize >= 1 is.
C30_AccumulationCompletes == <>(phase = "STEADY")

====
